---- MODULE Spec2Model ----
(***************************************************************************)
(* State-machine model of the canvas minimap plugin (class CanvasMinimap). *)
(* The host application (workspace, canvas views, canvas prototype, DOM)   *)
(* is the environment; every plugin callback is one action.                *)
(***************************************************************************)
EXTENDS Integers, Sequences, FiniteSets, TLC

\* ------------------------------------------------------------------ bounds

\* Cap on the wrapper layers stacked on the canvas prototype.
MaxWrap == 3

\* Cap on un-awaited saveSettings() calls whose saveData() is still pending.
MaxPending == 1

\* Cap on the scenes appended to one svg surface.
MaxBatches == 2

\* How far, in user units, a pan moves the viewBox origin from where renderMinimap put it.
MaxPan == 80

\* ----------------------------------------------------- host environment

Canvases == {"cA", "cB"}

\* What workspace.getActiveViewOfType(FileView) can be: a markdown note or a canvas.
Views == {"md"} \cup Canvases

\* Host nodes: id, x, y, width, height, unknownData.type and label ("" when the node
\* has none). Widths and heights are even, so that width / 2 is a whole number.
NodeTable ==
    [ g1 |-> [id |-> "g1", x |-> 0,   y |-> 0,  width |-> 200, height |-> 200, type |-> "group", label |-> ""],
      g2 |-> [id |-> "g2", x |-> 0,   y |-> 0,  width |-> 200, height |-> 100, type |-> "group", label |-> "Area"],
      n1 |-> [id |-> "n1", x |-> 50,  y |-> 50, width |-> 20,  height |-> 20,  type |-> "text",  label |-> ""],
      n2 |-> [id |-> "n2", x |-> 300, y |-> 40, width |-> 40,  height |-> 40,  type |-> "text",  label |-> ""],
      p1 |-> [id |-> "p1", x |-> 40,  y |-> 40, width |-> 20,  height |-> 20,  type |-> "text",  label |-> ""],
      p2 |-> [id |-> "p2", x |-> 45,  y |-> 45, width |-> 20,  height |-> 20,  type |-> "text",  label |-> ""],
      p3 |-> [id |-> "p3", x |-> 40,  y |-> 40, width |-> 30,  height |-> 30,  type |-> "text",  label |-> ""] ]

\* The node ids a canvas file can hold.
NodeIdsOf(c) == IF c = "cA" THEN {"g1", "n1"} ELSE {"n2"}

\* Host edges: e.from.node / e.from.side / e.to.node / e.to.side / e.fromSide.
\* An edge object need not have a fromSide property of its own ("undefined"), and
\* its sides are whatever strings the canvas data holds.
EdgeTable ==
    [ e1 |-> [id |-> "e1", from |-> [node |-> "g1", side |-> "right"],
              to |-> [node |-> "n1", side |-> "left"], fromSide |-> "right"],
      e2 |-> [id |-> "e2", from |-> [node |-> "n1", side |-> "right"],
              to |-> [node |-> "n2", side |-> "left"], fromSide |-> "undefined"],
      e3 |-> [id |-> "e3", from |-> [node |-> "n1", side |-> "bottom"],
              to |-> [node |-> "n2", side |-> "top"], fromSide |-> "undefined"],
      e4 |-> [id |-> "e4", from |-> [node |-> "n2", side |-> "top"],
              to |-> [node |-> "n1", side |-> "right"], fromSide |-> "top"],
      e5 |-> [id |-> "e5", from |-> [node |-> "n1", side |-> "center"],
              to |-> [node |-> "n2", side |-> "left"], fromSide |-> "undefined"],
      e6 |-> [id |-> "e6", from |-> [node |-> "n2", side |-> "left"],
              to |-> [node |-> "n1", side |-> "undefined"], fromSide |-> "left"] ]

EdgeIdsOf(c) == IF c = "cA" THEN {"e1"} ELSE {}

\* Boxes canvas.getViewportBBox() can return.
ViewportBoxes ==
    { [minX |-> 0,  minY |-> 0,  maxX |-> 100, maxY |-> 80],
      [minX |-> 40, minY |-> 40, maxX |-> 240, maxY |-> 200] }

\* Points (in viewBox user space) d3.pointer(e) can return for a click.
ClickPoints ==
    { [x |-> 60, y |-> 60], [x |-> 10, y |-> 10], [x |-> 310, y |-> 50], [x |-> 500, y |-> 500] }

\* Node maps of other canvas files, in Map insertion order: overlapping cards (p1 and
\* p2), cards with one top-left corner (p1 and p3), a group with cards inside, cards
\* apart from each other, and the empty canvas.
HitLayouts ==
    { <<>>, <<"n1", "g1">>, <<"g1", "n1", "p2">>, <<"p1", "p2">>, <<"p2", "p1">>,
      <<"p1", "p3">>, <<"p3", "p1">>, <<"p1", "n2">> }

\* Points d3.pointer(e) can return on those canvases.
HitPoints ==
    { [x |-> 50, y |-> 50], [x |-> 60, y |-> 60], [x |-> 10, y |-> 10], [x |-> 100, y |-> 50],
      [x |-> 310, y |-> 50], [x |-> 500, y |-> 500] }

\* Node maps of small canvas files, wheel movements (deltaY) and mouse positions
\* (in viewBox user space) of wheel events.
WheelLayouts == { <<>>, <<"p1">>, <<"g2">> }
WheelDeltas == {-100, 100}
WheelPoints == { [x |-> 0, y |-> 0], [x |-> 30, y |-> 30], [x |-> 100, y |-> 50] }

\* Node maps and edge maps of canvas files with groups, labels and edges; some edge
\* maps hold an edge whose side is none of left, right, top, bottom.
DrawLayouts == { <<"g1", "n1", "n2">>, <<"n1", "g2", "n2">>, <<"n2", "g2", "n1", "g1">> }
EdgeLayouts ==
    { <<>>, <<"e1">>, <<"e2", "e3">>, <<"e4", "e1">>, <<"e3", "e5", "e1">>, <<"e6">> }

\* Mouse movements between two 'mousemove' events, in px: e.clientX - lastX and
\* e.clientY - lastY.
PanDeltas == { <<40, 30>>, <<-40, -30>>, <<40, 0>>, <<0, -30>> }

\* The three values of the navigation strategy dropdowns.
CanvasNavigationStrategy == {"PAN", "ZOOM", "NONE"}

\* Texts typed into the width and height fields of the settings tab.
SizeTexts == { <<"1", "0", "0">> }

\* What the user can type into the margin field, as characters.
MarginTexts == { <<"0">>, <<"1", "0", "p", "x">> }

HostMethods == {"markMoved", "markDirty", "markViewportChanged", "requestFrame"}

\* Arguments the host passes to a wrapped method (markViewportChanged and
\* requestFrame take none).
HostArgs(m) == IF m \in {"markMoved", "markDirty"} THEN {"n1"} ELSE {"undefined"}

\* ------------------------------------------------------- geometry (pure)

Min(a, b) == IF a < b THEN a ELSE b
Max(a, b) == IF a > b THEN a ELSE b

Vector2(x, y) == [x |-> x, y |-> y]
Vector2Add(a, b) == Vector2(a.x + b.x, a.y + b.y)
Vector2Sub(a, b) == Vector2(a.x - b.x, a.y - b.y)
Vector2LenSq(a) == a.x * a.x + a.y * a.y

BoundingBox(min_x, min_y, max_x, max_y) ==
    [minX |-> min_x, minY |-> min_y, maxX |-> max_x, maxY |-> max_y]

\* BoundingBox.fromRect of an svg rect (x, y, width, height).
FromRect(r) == BoundingBox(r.x, r.y, r.x + r.width, r.y + r.height)

BBoxWidth(b) == b.maxX - b.minX
BBoxHeight(b) == b.maxY - b.minY
BBoxContains(b, p) == p.x >= b.minX /\ p.x <= b.maxX /\ p.y >= b.minY /\ p.y <= b.maxY

\* node.bbox of a host node.
NodeBBox(n) == BoundingBox(n.x, n.y, n.x + n.width, n.y + n.height)

\* ---------------------------------------------------------------- state

VARIABLES
    activeView,     \* host: the active view ("md" or a canvas)
    nodes,          \* host: canvas.nodes per canvas, ids in Map insertion order
    edges,          \* host: canvas.edges per canvas, ids in Map insertion order
    viewportBBox,   \* host: what getViewportBBox() of the active canvas returns
    loaded,         \* the plugin is loaded (onload done, unload not yet run)
    layoutReady,    \* the onLayoutReady callback has run
    settings,       \* this.settings
    canvas_bounds,  \* this.canvas_bounds
    canvas_patched, \* this.canvas_patched
    subs,           \* number of CANVAS_TICK handlers (onCanvasUpdate) on canvas_event
    wrappers,       \* wrapper layers around each of the four prototype methods
    pendingSaves,   \* saveSettings() calls suspended at `await this.saveData`
    minimap,        \* an element #_minimap_ is in the document
    overlays,       \* the #_minimap_ elements in the document: for each, how many svg it holds
    toolbar,        \* an element #_minimap_toolbar_ is in the document
    scene,          \* children of #_minimap_ > svg: one batch per renderMinimap call
    viewBox,        \* viewBox attribute of the svg: <<x, y, width, height>>
    divStyle,       \* width, height, left and top of the #_minimap_ element, in px
    overlayCanvas,  \* the active_canvas constant in the closures of that overlay
    isSvgDragging,  \* closure flag of the overlay: left-button drag on the svg
    isRightDragging,\* closure flag of the overlay: right-button drag on the svg
    resize,         \* the resize drag whose document listeners are installed
    stale,          \* the overlay in the document was created by an earlier setupMinimap
    docListeners,   \* listeners the plugin has on document: mousemove, mouseup, contextmenu
    handler,        \* the callback that ran last
    trace,          \* the last host method call: the call, then originals run and events emitted
    nav,            \* navigation call (or error) the last click made
    click,          \* the last callback was a click on the svg: its point and Ctrl modifier
    gesture,        \* the press on the svg: "none", "pressed", "moved", or "drag-end" when
                    \* a left-button drag was just released (the browser's click comes next)
    frame,          \* the last host method call, step by step: layers entered and left, handlers run
    thrown,         \* the exception the last callback ended with, if any
    unloadSnap      \* what unloadMinimap left behind when it last returned in that callback

hostVars == <<activeView, nodes, edges, viewportBBox>>
pluginVars == <<loaded, layoutReady, settings, canvas_bounds, canvas_patched, subs, wrappers,
                pendingSaves>>
domVars == <<minimap, overlays, toolbar, scene, viewBox, divStyle, overlayCanvas, isSvgDragging,
             isRightDragging, resize, stale, docListeners>>
obsVars == <<handler, trace, nav, click, gesture, frame, thrown, unloadSnap>>
vars == <<hostVars, pluginVars, domVars, obsVars>>

\* DEFAULT_SETTINGS, the fields the model reads.
DEFAULT_SETTINGS ==
    [ width |-> 400, height |-> 300, margin |-> 100, enabled |-> TRUE,
      fontSize |-> 10, drawActiveViewport |-> TRUE, primaryNavigationStrategy |-> "ZOOM",
      secondaryNavigationStrategy |-> "PAN", positionX |-> 0, positionY |-> 0 ]

\* new Error(message) as a value, and the absence of one.
Error(message) == [thrown |-> TRUE, message |-> message]
NoError == [thrown |-> FALSE, message |-> <<>>]
Throws(v) == "thrown" \in DOMAIN v /\ v.thrown

NoNav == [call |-> "none", x1 |-> 0, y1 |-> 0, x2 |-> 0, y2 |-> 0]
NoClick == [on |-> FALSE, x |-> 0, y |-> 0, ctrl |-> FALSE]
NoListeners == [mousemove |-> 0, mouseup |-> 0, contextmenu |-> 0]
NoSnap == [called |-> FALSE, minimap |-> FALSE, toolbar |-> FALSE, subs |-> 0, wrappers |-> 0]
NoViewBox == <<0, 0, 0, 0>>
NoStyle == [width |-> 0, height |-> 0, left |-> 0, top |-> 0]
NoResize ==
    [ on |-> FALSE, detached |-> FALSE, canvas |-> "null", horizontal |-> "both",
      vertical |-> "both", startWidth |-> 0, startHeight |-> 0, startLeft |-> 0,
      startTop |-> 0 ]

\* window.innerWidth and window.innerHeight of the host window.
Window == [innerWidth |-> 1200, innerHeight |-> 800]

\* getActiveCanvas(): the canvas of the active view, or null (here "null").
getActiveCanvas(s) == IF s.active \in Canvases THEN s.active ELSE "null"

\* What a callback sees and changes (the active view, the plugin's fields, the DOM it
\* owns) as one record, so that a callback can run unloadMinimap, setupMinimap, ...
\* one after the other.
Cur ==
    [ active |-> activeView, settings |-> settings, canvas_bounds |-> canvas_bounds, canvas_patched |-> canvas_patched,
      subs |-> subs, wrappers |-> wrappers, pendingSaves |-> pendingSaves,
      minimap |-> minimap, overlays |-> overlays, toolbar |-> toolbar, scene |-> scene, viewBox |-> viewBox,
      divStyle |-> divStyle, overlayCanvas |-> overlayCanvas,
      isSvgDragging |-> isSvgDragging, isRightDragging |-> isRightDragging,
      resize |-> resize, stale |-> stale, docListeners |-> docListeners,
      unloadSnap |-> NoSnap, thrown |-> NoError ]

Become(s) ==
    /\ settings' = s.settings
    /\ canvas_bounds' = s.canvas_bounds
    /\ canvas_patched' = s.canvas_patched
    /\ subs' = s.subs
    /\ wrappers' = s.wrappers
    /\ pendingSaves' = s.pendingSaves
    /\ minimap' = s.minimap
    /\ overlays' = s.overlays
    /\ toolbar' = s.toolbar
    /\ scene' = s.scene
    /\ viewBox' = s.viewBox
    /\ divStyle' = s.divStyle
    /\ overlayCanvas' = s.overlayCanvas
    /\ isSvgDragging' = s.isSvgDragging
    /\ isRightDragging' = s.isRightDragging
    /\ resize' = s.resize
    /\ stale' = s.stale
    /\ docListeners' = s.docListeners
    /\ unloadSnap' = s.unloadSnap
    /\ thrown' = s.thrown

\* ------------------------------------------------------------ renderMinimap

\* Mutant of sidePositionOf: a side that is none of the four is treated as "bottom".
sidePositionOfAnySide(node, side) ==
    LET origin == Vector2(node.x, node.y)
        radius == Vector2(node.width \div 2, node.height \div 2)
        center == Vector2Add(origin, radius)
    IN  CASE side = "left"   -> Vector2Sub(center, Vector2(radius.x, 0))
          [] side = "right"  -> Vector2Add(center, Vector2(radius.x, 0))
          [] side = "top"    -> Vector2Sub(center, Vector2(0, radius.y))
          [] OTHER           -> Vector2Add(center, Vector2(0, radius.y))

\* Mutant of sidePositionOf: the offsets are taken from the origin, not the centre.
sidePositionOfFromOrigin(node, side) ==
    LET origin == Vector2(node.x, node.y)
        radius == Vector2(node.width \div 2, node.height \div 2)
    IN  CASE side = "left"   -> Vector2Sub(origin, Vector2(radius.x, 0))
          [] side = "right"  -> Vector2Add(origin, Vector2(radius.x, 0))
          [] side = "top"    -> Vector2Sub(origin, Vector2(0, radius.y))
          [] side = "bottom" -> Vector2Add(origin, Vector2(0, radius.y))
          [] OTHER           -> Error(<<"invalid side ", side>>)

\* sidePositionOf(node, side): the midpoint of one side of the node's box, or the
\* Error of `throw new Error(`invalid side ${side}`)`.
sidePositionOf(node, side) ==
    LET origin == Vector2(node.x, node.y)
        radius == Vector2(node.width \div 2, node.height \div 2)
        center == Vector2Add(origin, radius)
    IN  CASE side = "left"   -> Vector2Sub(center, Vector2(radius.x, 0))
          [] side = "right"  -> Vector2Add(center, Vector2(radius.x, 0))
          [] side = "top"    -> Vector2Sub(center, Vector2(0, radius.y))
          [] side = "bottom" -> Vector2Add(center, Vector2(0, radius.y))
          [] OTHER           -> Error(<<"invalid side ", side>>)

\* linkAnchor(side): which d3 link generator draws the edge.
linkAnchor(side) == IF side = "left" \/ side = "right" THEN "linkHorizontal" ELSE "linkVertical"

\* The nodes.forEach loop that grows bbox from new BoundingBox() = (0,0,0,0).
RECURSIVE BBoxOver(_, _)
BBoxOver(ids, bbox) ==
    IF ids = <<>> THEN bbox
    ELSE LET node == NodeTable[Head(ids)]
         IN  BBoxOver(Tail(ids),
                      BoundingBox(Min(bbox.minX, node.x), Min(bbox.minY, node.y),
                                  Max(bbox.maxX, node.x + node.width),
                                  Max(bbox.maxY, node.y + node.height)))

IsGroup(id) == NodeTable[id].type = "group"
IsChild(id) == ~IsGroup(id)

\* rect.attr(k, v) for k in x, y, width, height, id, then the fill.
NodeRect(id, fill) ==
    LET n == NodeTable[id]
    IN  [id |-> n.id, x |-> n.x, y |-> n.y, width |-> n.width, height |-> n.height, fill |-> fill]

RECURSIVE RectsOf(_, _)
RectsOf(ids, fill) == IF ids = <<>> THEN <<>> ELSE <<NodeRect(Head(ids), fill)>> \o RectsOf(Tail(ids), fill)

\* `if (label)`: the group has a non-empty label.
HasLabel(id) == NodeTable[id].label # ""

\* font_size = settings.fontSize / Math.min(scale_x, scale_y), where scale_x is
\* settings.width / (bbox.maxX - bbox.minX) and scale_y is settings.height /
\* (bbox.maxY - bbox.minY); kept as the fraction num / den. scale_x <= scale_y
\* exactly when settings.width * (height of bbox) <= settings.height * (width of bbox).
LabelFontSize(s, bbox) ==
    LET w == bbox.maxX - bbox.minX
        h == bbox.maxY - bbox.minY
    IN  IF s.settings.width * h <= s.settings.height * w
        THEN [num |-> s.settings.fontSize * w, den |-> s.settings.width]
        ELSE [num |-> s.settings.fontSize * h, den |-> s.settings.height]

\* g.append("text") of a labelled group.
LabelText(s, id, bbox) ==
    LET n == NodeTable[id]
    IN  [id |-> n.id, text |-> n.label, x |-> n.x, y |-> n.y, fill |-> "fontColor",
         fontSize |-> LabelFontSize(s, bbox)]

RECURSIVE TextsOf(_, _, _)
TextsOf(s, ids, bbox) ==
    IF ids = <<>> THEN <<>>
    ELSE <<LabelText(s, Head(ids), bbox)>> \o TextsOf(s, Tail(ids), bbox)

\* The path of one edge whose two sides are valid.
EdgePath(id) ==
    LET e == EdgeTable[id]
        fromPos == sidePositionOf(NodeTable[e.from.node], e.from.side)
        toPos == sidePositionOf(NodeTable[e.to.node], e.to.side)
    IN  [link |-> linkAnchor(e.fromSide), source |-> fromPos, target |-> toPos]

\* edges.forEach: paths are appended in order until a sidePositionOf call throws.
RECURSIVE EdgesForEach(_, _)
EdgesForEach(ids, paths) ==
    IF ids = <<>> THEN [paths |-> paths, error |-> NoError]
    ELSE LET e == EdgeTable[Head(ids)]
             fromPos == sidePositionOf(NodeTable[e.from.node], e.from.side)
             toPos == sidePositionOf(NodeTable[e.to.node], e.to.side)
         IN  IF Throws(fromPos) THEN [paths |-> paths, error |-> fromPos]
             ELSE IF Throws(toPos) THEN [paths |-> paths, error |-> toPos]
             ELSE EdgesForEach(Tail(ids), Append(paths, EdgePath(Head(ids))))

PathsOf(ids) == EdgesForEach(ids, <<>>).paths

\* bg.append('rect').attr('id', 'minimap_viewport').attr('fill', 'none')
NewIndicator ==
    [id |-> "minimap_viewport", x |-> 0, y |-> 0, width |-> 0, height |-> 0,
     fill |-> "none", stroke |-> "none"]

\* The g#minimap_bg of a render that threw before it appended the indicator.
NoIndicator ==
    [id |-> "none", x |-> 0, y |-> 0, width |-> 0, height |-> 0,
     fill |-> "none", stroke |-> "none"]

\* Mutant of SceneOf: the rects of the other nodes are appended before the group rects.
SceneOfChildrenFirst(s, c) ==
    [ rects |-> RectsOf(SelectSeq(nodes[c], IsChild), "nodeColor")
                \o RectsOf(SelectSeq(nodes[c], IsGroup), "groupColor"),
      texts |-> TextsOf(s, SelectSeq(SelectSeq(nodes[c], IsGroup), HasLabel),
                        BBoxOver(nodes[c], BoundingBox(0, 0, 0, 0))),
      paths |-> PathsOf(edges[c]),
      viewport |-> IF Throws(EdgesForEach(edges[c], <<>>).error) THEN NoIndicator
                   ELSE NewIndicator ]

\* What one renderMinimap call appends to the svg: g#minimap_bg with the indicator
\* (when the call got that far), g#minimap_fg with the group rects and the texts of
\* their labels, then the other rects, then the edge paths.
SceneOf(s, c) ==
    [ rects |-> RectsOf(SelectSeq(nodes[c], IsGroup), "groupColor")
                \o RectsOf(SelectSeq(nodes[c], IsChild), "nodeColor"),
      texts |-> TextsOf(s, SelectSeq(SelectSeq(nodes[c], IsGroup), HasLabel),
                        BBoxOver(nodes[c], BoundingBox(0, 0, 0, 0))),
      paths |-> PathsOf(edges[c]),
      viewport |-> IF Throws(EdgesForEach(edges[c], <<>>).error) THEN NoIndicator
                   ELSE NewIndicator ]

\* Mutant of renderMinimap: canvas_bounds is the content box, without the margin.
renderMinimapNoMargin(s, svgPresent, c) ==
    LET cb == BBoxOver(nodes[c], BoundingBox(0, 0, 0, 0))
    IN  IF svgPresent
        THEN [s EXCEPT !.canvas_bounds = cb,
                       !.viewBox = <<cb.minX, cb.minY, BBoxWidth(cb), BBoxHeight(cb)>>,
                       !.scene = Append(@, SceneOf(s, c)),
                       !.thrown = EdgesForEach(edges[c], <<>>).error]
        ELSE [s EXCEPT !.canvas_bounds = cb,
                       !.thrown = EdgesForEach(edges[c], <<>>).error]

\* renderMinimap(svg, canvas); svgPresent: the selection '#_minimap_>svg' is not empty.
\* The code appends to the svg and removes nothing from it; it ends early, with what
\* it has appended so far, when sidePositionOf throws (on an empty selection too:
\* the edge loop runs all the same).
renderMinimap(s, svgPresent, c) ==
    LET bbox == BBoxOver(nodes[c], BoundingBox(0, 0, 0, 0))
        m == s.settings.margin
        cb == BoundingBox(bbox.minX - m, bbox.minY - m, bbox.maxX + m, bbox.maxY + m)
    IN  IF svgPresent
        THEN [s EXCEPT !.canvas_bounds = cb,
                       !.viewBox = <<cb.minX, cb.minY, BBoxWidth(cb), BBoxHeight(cb)>>,
                       !.scene = Append(@, SceneOf(s, c)),
                       !.thrown = EdgesForEach(edges[c], <<>>).error]
        ELSE [s EXCEPT !.canvas_bounds = cb,
                       !.thrown = EdgesForEach(edges[c], <<>>).error]

\* ----------------------------------------------------- renderCanvasViewport

\* select('#_minimap_ > svg').select('#minimap_viewport'): the index of the batch
\* that holds the first indicator in document order, 0 on an empty selection.
FirstIndicator(sc) ==
    LET I == {i \in 1..Len(sc) : sc[i].viewport.id = "minimap_viewport"}
    IN  IF I = {} THEN 0 ELSE CHOOSE i \in I : \A j \in I : i <= j

\* Mutant of renderCanvasViewport: the drawActiveViewport option is not consulted.
renderCanvasViewportAlways(s, c) ==
    IF c = "null" \/ FirstIndicator(s.scene) = 0 THEN s
    ELSE [s EXCEPT !.scene[FirstIndicator(s.scene)].viewport =
             [id |-> "minimap_viewport", x |-> viewportBBox.minX, y |-> viewportBBox.minY,
              width |-> viewportBBox.maxX - viewportBBox.minX,
              height |-> viewportBBox.maxY - viewportBBox.minY,
              fill |-> "azure", stroke |-> "orange"]]

\* On an empty selection the attr calls do nothing.
renderCanvasViewport(s, c) ==
    IF ~s.settings.drawActiveViewport THEN s
    ELSE IF c = "null" THEN s
    ELSE IF FirstIndicator(s.scene) = 0 THEN s
    ELSE LET canvas_bbox == viewportBBox
         IN  [s EXCEPT !.scene[FirstIndicator(s.scene)].viewport =
                 [id |-> "minimap_viewport", x |-> canvas_bbox.minX, y |-> canvas_bbox.minY,
                  width |-> canvas_bbox.maxX - canvas_bbox.minX,
                  height |-> canvas_bbox.maxY - canvas_bbox.minY,
                  fill |-> "azure", stroke |-> "orange"]]

\* static onCanvasUpdate(_, ctx)
onCanvasUpdate(s) == renderCanvasViewport(s, getActiveCanvas(s))

\* ------------------------------------------------------ patch / setup / unload

\* patchCanvas(canvas): around() stacks one more layer on each of the four prototype
\* methods, and one more CANVAS_TICK handler is registered; canvas_patched is
\* written and never read.
patchCanvas(s, c) ==
    LET s1 == IF c # "null"
              THEN [s EXCEPT !.wrappers = @ + 1, !.canvas_patched = TRUE]
              ELSE s
    IN  [s1 EXCEPT !.subs = @ + 1]

\* minimap.remove() on container.select('#_minimap_'), the first such element in
\* the document: the element leaves the document with its svg and its closures;
\* the document listeners of a resize drag in progress stay, their div now detached.
RemoveOverlay(s) ==
    [s EXCEPT !.minimap = FALSE, !.overlays = IF @ = <<>> THEN @ ELSE Tail(@), !.scene = <<>>, !.viewBox = NoViewBox,
              !.divStyle = NoStyle, !.overlayCanvas = "null",
              !.isSvgDragging = FALSE, !.isRightDragging = FALSE, !.stale = FALSE,
              !.resize = IF @.on THEN [@ EXCEPT !.detached = TRUE] ELSE @]

\* unloadMinimap(): acts only when a canvas is active; off() drops every handler
\* registered with onCanvasUpdate. The snapshot is taken as the call returns.
unloadMinimap(s) ==
    LET s1 == IF getActiveCanvas(s) # "null"
              THEN [RemoveOverlay(s) EXCEPT !.toolbar = FALSE, !.subs = 0]
              ELSE s
    IN  [s1 EXCEPT !.unloadSnap = [called |-> TRUE, minimap |-> s1.minimap,
                                   toolbar |-> s1.toolbar, subs |-> s1.subs,
                                   wrappers |-> s1.wrappers]]

\* Where the new div is placed: the saved position, or the 'bottom-right' preset
\* (right: 20px; bottom: 20px) as the left and top that div.style() then reads back.
InitialStyle(st) ==
    [ width |-> st.width, height |-> st.height,
      left |-> IF st.positionX # 0 \/ st.positionY # 0 THEN st.positionX
               ELSE Window.innerWidth - st.width - 20,
      top |-> IF st.positionX # 0 \/ st.positionY # 0 THEN st.positionY
              ELSE Window.innerHeight - st.height - 20 ]

\* The `if (minimap.empty())` block of setupMinimap: a new #_minimap_ with an empty
\* svg, whose handlers close over active_canvas and fresh drag flags; handleSvgMouseMove,
\* handleSvgMouseUp and a contextmenu listener of the new closure go onto document.
CreateOverlay(s, active_canvas) ==
    [s EXCEPT !.minimap = TRUE, !.overlays = Append(@, 1), !.scene = <<>>, !.viewBox = NoViewBox,
              !.divStyle = InitialStyle(s.settings), !.overlayCanvas = active_canvas,
              !.isSvgDragging = FALSE, !.isRightDragging = FALSE, !.stale = FALSE,
              !.docListeners = [mousemove |-> @.mousemove + 1, mouseup |-> @.mouseup + 1,
                                contextmenu |-> @.contextmenu + 1]]

\* The cleanup callbacks handed to this.register() by every overlay created so far:
\* each removes its own handleSvgMouseMove and handleSvgMouseUp; the removeEventListener
\* for 'contextmenu' is given a new function and removes nothing, so the contextmenu
\* listeners count the overlays created.
RegisteredCleanup(s) ==
    [s EXCEPT !.docListeners = [mousemove |-> @.mousemove - @.contextmenu,
                                mouseup |-> @.mouseup - @.contextmenu,
                                contextmenu |-> @.contextmenu]]

\* setupMinimap() without the test of minimap.empty(): a new overlay every time.
setupMinimapAlwaysCreates(s) ==
    IF ~s.settings.enabled THEN s
    ELSE LET active_canvas == getActiveCanvas(s)
         IN  IF active_canvas = "null" THEN s
             ELSE LET s1 == patchCanvas(s, active_canvas)
                  IN  renderMinimap(CreateOverlay(s1, active_canvas), TRUE, active_canvas)

\* setupMinimap() without the test of settings.enabled.
setupMinimapIgnoresEnabled(s) ==
    LET active_canvas == getActiveCanvas(s)
    IN  IF active_canvas = "null" THEN s
        ELSE LET s1 == patchCanvas(s, active_canvas)
                 s2 == IF ~s1.minimap THEN CreateOverlay(s1, active_canvas)
                       ELSE [s1 EXCEPT !.stale = TRUE]
             IN  renderMinimap(s2, TRUE, active_canvas)

\* setupMinimap()
setupMinimap(s) ==
    IF ~s.settings.enabled THEN s
    ELSE LET active_canvas == getActiveCanvas(s)
         IN  IF active_canvas = "null" THEN s
             ELSE LET s1 == patchCanvas(s, active_canvas)
                      s2 == IF ~s1.minimap THEN CreateOverlay(s1, active_canvas)
                            ELSE [s1 EXCEPT !.stale = TRUE]
                  IN  renderMinimap(s2, TRUE, active_canvas)

\* reloadMinimap()
reloadMinimap(s) == setupMinimap(unloadMinimap(s))

\* saveSettings() up to its `await this.saveData(...)`; the rest runs in SaveDone.
saveSettings(s) == [s EXCEPT !.pendingSaves = @ + 1]

\* A setupMinimap call on this state stacks a wrapper layer / appends to a live scene.
WouldPatch(s) == s.settings.enabled /\ getActiveCanvas(s) # "null"

\* ------------------------------------------------------------ wrapped methods

EventOf(m) ==
    CASE m = "markMoved" -> "CANVAS_MOVED"
      [] m = "markDirty" -> "CANVAS_DIRTY"
      [] m = "markViewportChanged" -> "CANVAS_VIEWPORT_CHANGED"
      [] m = "requestFrame" -> "CANVAS_TICK"

\* The argument a wrapper hands to next.call(this, ...), and to dispatchCanvasEvent.
NextArg(m, arg) == IF m = "markViewportChanged" THEN "undefined" ELSE arg
EmitArg(m, arg) == IF m \in {"markMoved", "markDirty"} THEN arg ELSE "null"

HostCallOf(m, recv, arg) == [op |-> "call", m |-> m, recv |-> recv, arg |-> arg]
OrigCall(m, recv, arg) == [op |-> "orig", m |-> m, recv |-> recv, arg |-> arg]
Emit(m, arg) == [op |-> "emit", m |-> EventOf(m), recv |-> "plugin", arg |-> EmitArg(m, arg)]

RECURSIVE Invoke(_, _, _, _)

\* Mutant of Wrapper: the event is dispatched before the original is called.
WrapperEmitsFirst(k, m, recv, arg) ==
    <<Emit(m, arg)>> \o Invoke(k - 1, m, recv, NextArg(m, arg))

\* One wrapper layer of patchCanvas: next.call(this, e), then dispatchCanvasEvent.
Wrapper(k, m, recv, arg) == Invoke(k - 1, m, recv, NextArg(m, arg)) \o <<Emit(m, arg)>>

\* canvas[m](arg) with k layers on the prototype: what runs, in order.
Invoke(k, m, recv, arg) ==
    IF k = 0 THEN <<OrigCall(m, recv, arg)>> ELSE Wrapper(k, m, recv, arg)

\* canvas_event.trigger(type, e, this): every registered handler runs, in order.
\* Only CANVAS_TICK has handlers (there are s.subs of them).
RECURSIVE RunHandlers(_, _)
RunHandlers(s, k) == IF k = 0 THEN s ELSE RunHandlers(onCanvasUpdate(s), k - 1)

dispatchCanvasEvent(s, type) == IF type = "CANVAS_TICK" THEN RunHandlers(s, s.subs) ELSE s

\* The same call chain step by step. A step is one of: a wrapper layer is entered,
\* the original method runs, trigger() is called, a handler is called, that handler
\* returns, trigger() returns, the wrapper layer returns.
Step(op, layer) == [op |-> op, layer |-> layer]

\* canvas_event.trigger(...) from layer k: the n handlers of the event run one
\* after the other, each to its end, and then trigger returns.
RECURSIVE HandlerSteps(_, _)
HandlerSteps(k, n) ==
    IF n = 0 THEN <<>>
    ELSE <<Step("handler", k), Step("handler-returned", k)>> \o HandlerSteps(k, n - 1)

DispatchSteps(s, k, m) ==
    <<Step("trigger", k)>>
    \o HandlerSteps(k, IF EventOf(m) = "CANVAS_TICK" THEN s.subs ELSE 0)
    \o <<Step("triggered", k)>>

RECURSIVE FrameSteps(_, _, _)

\* Mutant of WrapperSteps: the event is dispatched after the wrapper has returned.
WrapperStepsDeferred(s, k, m) ==
    <<Step("enter", k)>> \o FrameSteps(s, k - 1, m) \o <<Step("return", k)>>
    \o DispatchSteps(s, k, m)

\* function (e) { next.call(this, e); dispatchCanvasEvent(...) } of layer k.
WrapperSteps(s, k, m) ==
    <<Step("enter", k)>> \o FrameSteps(s, k - 1, m) \o DispatchSteps(s, k, m)
    \o <<Step("return", k)>>

FrameSteps(s, k, m) == IF k = 0 THEN <<Step("original", 0)>> ELSE WrapperSteps(s, k, m)

\* The state after the steps of a call chain, oldest first.
RECURSIVE AfterTrace(_, _)
AfterTrace(s, tr) ==
    IF tr = <<>> THEN s
    ELSE AfterTrace(IF Head(tr).op = "emit" THEN dispatchCanvasEvent(s, Head(tr).m) ELSE s,
                    Tail(tr))

\* ------------------------------------------------------------------ Init

\* The plugin's fields and the document when onload() has returned.
InitPlugin ==
    /\ loaded = TRUE
    /\ layoutReady = FALSE
    /\ canvas_bounds = BoundingBox(0, 0, 0, 0)
    /\ canvas_patched = FALSE
    /\ subs = 0
    /\ wrappers = 0
    /\ pendingSaves = 0
    /\ minimap = FALSE
    /\ overlays = <<>>
    /\ toolbar = FALSE
    /\ scene = <<>>
    /\ viewBox = NoViewBox
    /\ divStyle = NoStyle
    /\ overlayCanvas = "null"
    /\ isSvgDragging = FALSE
    /\ isRightDragging = FALSE
    /\ resize = NoResize
    /\ stale = FALSE
    /\ docListeners = NoListeners
    /\ handler = "onload"
    /\ trace = <<>>
    /\ nav = NoNav
    /\ click = NoClick
    /\ gesture = "none"
    /\ frame = <<>>
    /\ thrown = NoError
    /\ unloadSnap = NoSnap

\* The state when onload() has returned: settings loaded, nothing set up yet.
Init ==
    /\ activeView \in Views
    /\ nodes \in {[cA |-> <<>>, cB |-> <<"n2">>], [cA |-> <<"g1", "n1">>, cB |-> <<"n2">>]}
    /\ edges = [cA |-> <<>>, cB |-> <<>>]
    /\ viewportBBox \in ViewportBoxes
    /\ \E en \in BOOLEAN, dr \in BOOLEAN :
          settings = [DEFAULT_SETTINGS EXCEPT !.enabled = en, !.drawActiveViewport = dr]
    /\ InitPlugin

\* A callback named h ends in plugin/DOM state s, having made no wrapped host call.
RanGesture(h, s, g) ==
    /\ Become(s)
    /\ handler' = h
    /\ trace' = <<>>
    /\ frame' = <<>>
    /\ nav' = NoNav
    /\ click' = NoClick
    /\ gesture' = g

\* A callback that is no part of a drag of the svg's view.
Ran(h, s) == RanGesture(h, s, "none")

\* A setupMinimap on s stays within the model's caps.
CanSetup(s) ==
    WouldPatch(s) => /\ s.wrappers < MaxWrap
                     /\ s.minimap => Len(s.scene) < MaxBatches

\* ------------------------------------------------- workspace and vault events

\* app.workspace.onLayoutReady(() => this.setupMinimap())
LayoutReady ==
    /\ loaded /\ ~layoutReady
    /\ CanSetup(Cur)
    /\ layoutReady' = TRUE
    /\ Ran("onLayoutReady", setupMinimap(Cur))
    /\ UNCHANGED <<hostVars, loaded>>

\* The host makes view v active and fires 'active-leaf-change': reloadMinimap().
ActiveLeafChange(v) ==
    /\ loaded
    /\ v # activeView
    /\ LET s0 == [Cur EXCEPT !.active = v]
       IN  /\ CanSetup(unloadMinimap(s0))
           /\ Ran("active-leaf-change", reloadMinimap(s0))
    /\ activeView' = v
    /\ UNCHANGED <<nodes, edges, viewportBBox, loaded, layoutReady>>

\* workspace 'resize': reloadMinimap().
WorkspaceResize ==
    /\ loaded
    /\ CanSetup(unloadMinimap(Cur))
    /\ Ran("resize", reloadMinimap(Cur))
    /\ UNCHANGED <<hostVars, loaded, layoutReady>>

\* vault 'modify' of a file: reloadMinimap() when a canvas is active and the file is
\* the active file.
VaultModify(isActiveFile) ==
    /\ loaded
    /\ IF getActiveCanvas(Cur) # "null" /\ isActiveFile
       THEN /\ CanSetup(unloadMinimap(Cur))
            /\ Ran("modify", reloadMinimap(Cur))
       ELSE Ran("modify-ignored", Cur)
    /\ UNCHANGED <<hostVars, loaded, layoutReady>>

\* The reload command (checkCallback): offered only while a canvas is active.
ReloadCommand ==
    /\ loaded
    /\ getActiveCanvas(Cur) # "null"
    /\ CanSetup(unloadMinimap(Cur))
    /\ Ran("reload-command", reloadMinimap(Cur))
    /\ UNCHANGED <<hostVars, loaded, layoutReady>>

\* The toggle command: flips settings.enabled and calls saveSettings() un-awaited.
ToggleCommand ==
    /\ loaded
    /\ getActiveCanvas(Cur) # "null"
    /\ pendingSaves < MaxPending
    /\ Ran("toggle-command",
           saveSettings([Cur EXCEPT !.settings.enabled = ~settings.enabled]))
    /\ UNCHANGED <<hostVars, loaded, layoutReady>>

\* Settings tab: the 'enabled' toggle, then saveSettings().
SetEnabled(v) ==
    /\ loaded
    /\ v # settings.enabled
    /\ pendingSaves < MaxPending
    /\ Ran("setting-enabled", saveSettings([Cur EXCEPT !.settings.enabled = v]))
    /\ UNCHANGED <<hostVars, loaded, layoutReady>>

\* Settings tab: the 'drawActiveViewport' toggle, then saveSettings().
SetDrawActiveViewport(v) ==
    /\ loaded
    /\ v # settings.drawActiveViewport
    /\ pendingSaves < MaxPending
    /\ Ran("setting-drawActiveViewport",
           saveSettings([Cur EXCEPT !.settings.drawActiveViewport = v]))
    /\ UNCHANGED <<hostVars, loaded, layoutReady>>

IsDigit(ch) == ch \in {"0", "1", "2", "3", "4", "5", "6", "7", "8", "9"}

DigitValue(ch) ==
    CASE ch = "0" -> 0 [] ch = "1" -> 1 [] ch = "2" -> 2 [] ch = "3" -> 3 [] ch = "4" -> 4
      [] ch = "5" -> 5 [] ch = "6" -> 6 [] ch = "7" -> 7 [] ch = "8" -> 8 [] ch = "9" -> 9

\* The digits parseInt reads: up to the first character that is not a digit.
RECURSIVE ParseDigits(_, _)
ParseDigits(text, acc) ==
    IF text = <<>> \/ ~IsDigit(Head(text)) THEN acc
    ELSE ParseDigits(Tail(text), 10 * acc + DigitValue(Head(text)))

\* parseInt(value) yields a number: an optional sign, then at least one digit.
ParsesToNumber(text) ==
    LET digits == IF text # <<>> /\ Head(text) \in {"-", "+"} THEN Tail(text) ELSE text
    IN  digits # <<>> /\ IsDigit(Head(digits))

\* parseInt(value) for such a text.
ParseInt(text) ==
    IF Head(text) = "-" THEN 0 - ParseDigits(Tail(text), 0)
    ELSE IF Head(text) = "+" THEN ParseDigits(Tail(text), 0)
    ELSE ParseDigits(text, 0)

\* Settings tab: the margin field stores parseInt(value) unvalidated, then
\* saveSettings(). Texts for which parseInt gives NaN are not drawn here.
SetMargin(text) ==
    /\ loaded
    /\ ParsesToNumber(text)
    /\ ParseInt(text) # settings.margin
    /\ pendingSaves < MaxPending
    /\ Ran("setting-margin", saveSettings([Cur EXCEPT !.settings.margin = ParseInt(text)]))
    /\ UNCHANGED <<hostVars, loaded, layoutReady>>

\* value && !isNaN(Number(value)), for texts made of digits.
IsNumeric(text) == text # <<>> /\ \A i \in 1..Len(text) : IsDigit(text[i])

\* Settings tab: the width field stores parseInt(value) of a numeric text, whatever
\* the number, then saveSettings().
SetWidth(text) ==
    /\ loaded
    /\ IsNumeric(text)
    /\ ParseInt(text) # settings.width
    /\ pendingSaves < MaxPending
    /\ Ran("setting-width", saveSettings([Cur EXCEPT !.settings.width = ParseInt(text)]))
    /\ UNCHANGED <<hostVars, loaded, layoutReady>>

\* Settings tab: the height field, likewise.
SetHeight(text) ==
    /\ loaded
    /\ IsNumeric(text)
    /\ ParseInt(text) # settings.height
    /\ pendingSaves < MaxPending
    /\ Ran("setting-height", saveSettings([Cur EXCEPT !.settings.height = ParseInt(text)]))
    /\ UNCHANGED <<hostVars, loaded, layoutReady>>

\* saveData() resolves: the rest of saveSettings() runs reloadMinimap().
SaveDone ==
    /\ loaded
    /\ pendingSaves > 0
    /\ LET s0 == [Cur EXCEPT !.pendingSaves = @ - 1]
       IN  /\ CanSetup(unloadMinimap(s0))
           /\ Ran("saveSettings", reloadMinimap(s0))
    /\ UNCHANGED <<hostVars, loaded, layoutReady>>

\* Click on the close button of the overlay header.
CloseClick ==
    /\ loaded
    /\ minimap
    /\ pendingSaves < MaxPending
    /\ Ran("close-click",
           unloadMinimap(saveSettings([Cur EXCEPT !.settings.enabled = FALSE])))
    /\ UNCHANGED <<hostVars, loaded, layoutReady>>

\* The plugin is disabled: the callbacks given to register() run (every uninstaller
\* of patchCanvas, newest first), the workspace and vault events are detached, and
\* onunload() calls unloadMinimap().
PluginUnload ==
    /\ loaded
    /\ loaded' = FALSE
    /\ Ran("onunload", unloadMinimap(RegisteredCleanup([Cur EXCEPT !.wrappers = 0])))
    /\ UNCHANGED <<hostVars, layoutReady>>

\* ------------------------------------------------------------ host activity

\* The host calls canvas[m](arg) on canvas recv: the wrapper layers and the original
\* run, and every dispatch runs its handlers before the call returns.
HostCall(m, recv, arg) ==
    /\ loaded
    /\ LET tr == Invoke(wrappers, m, recv, arg)
       IN  /\ Become(AfterTrace(Cur, tr))
           /\ trace' = <<HostCallOf(m, recv, arg)>> \o tr
    /\ frame' = FrameSteps(Cur, wrappers, m)
    /\ gesture' = "none"
    /\ handler' = m
    /\ nav' = NoNav
    /\ click' = NoClick
    /\ UNCHANGED <<hostVars, loaded, layoutReady>>

\* What the host does between callbacks; it tells the plugin nothing by itself.
HostIdle ==
    /\ loaded
    /\ handler' = "user"
    /\ trace' = <<>>
    /\ nav' = NoNav
    /\ click' = NoClick
    /\ gesture' = "none"
    /\ frame' = <<>>
    /\ thrown' = NoError
    /\ unloadSnap' = NoSnap
    /\ UNCHANGED <<pluginVars, domVars>>

InSeq(x, sq) == \E i \in 1..Len(sq) : sq[i] = x

\* The user adds node id to the active canvas.
HostAddNode(id) ==
    /\ activeView \in Canvases
    /\ id \in NodeIdsOf(activeView)
    /\ ~InSeq(id, nodes[activeView])
    /\ nodes' = [nodes EXCEPT ![activeView] = Append(@, id)]
    /\ HostIdle
    /\ UNCHANGED <<activeView, edges, viewportBBox>>

EdgeTouches(e, id) == EdgeTable[e].from.node = id \/ EdgeTable[e].to.node = id

\* The user deletes node id (and the edges attached to it) from the active canvas.
HostDeleteNode(id) ==
    /\ activeView \in Canvases
    /\ InSeq(id, nodes[activeView])
    /\ nodes' = [nodes EXCEPT ![activeView] = SelectSeq(@, LAMBDA n : n # id)]
    /\ edges' = [edges EXCEPT ![activeView] = SelectSeq(@, LAMBDA e : ~EdgeTouches(e, id))]
    /\ HostIdle
    /\ UNCHANGED <<activeView, viewportBBox>>

\* The user connects two nodes of the active canvas.
HostAddEdge(e) ==
    /\ activeView \in Canvases
    /\ e \in EdgeIdsOf(activeView)
    /\ ~InSeq(e, edges[activeView])
    /\ InSeq(EdgeTable[e].from.node, nodes[activeView])
    /\ InSeq(EdgeTable[e].to.node, nodes[activeView])
    /\ edges' = [edges EXCEPT ![activeView] = Append(@, e)]
    /\ HostIdle
    /\ UNCHANGED <<activeView, nodes, viewportBBox>>

\* The user pans or zooms the canvas: getViewportBBox() now returns b.
HostViewportChange(b) ==
    /\ b # viewportBBox
    /\ viewportBBox' = b
    /\ HostIdle
    /\ UNCHANGED <<activeView, nodes, edges>>

\* ------------------------------------------------------------- svg handlers

\* svg.selectAll('rect') without the filter: the indicators are among the rectangles.
RECURSIVE SvgRectsUnfiltered(_)
SvgRectsUnfiltered(sc) ==
    IF sc = <<>> THEN <<>>
    ELSE Head(sc).rects
         \o (IF Head(sc).viewport.id = "minimap_viewport" THEN <<Head(sc).viewport>> ELSE <<>>)
         \o SvgRectsUnfiltered(Tail(sc))

\* svg.selectAll('rect').filter(":not(#minimap_viewport)"): the node rectangles of
\* every batch in the svg, in document order.
RECURSIVE SvgRects(_)
SvgRects(sc) == IF sc = <<>> THEN <<>> ELSE Head(sc).rects \o SvgRects(Tail(sc))

\* The boxes svg.getBBox() is the union of: node rectangles, indicators that have
\* been given a size, and the end points of the edge paths.
RECURSIVE PathBoxes(_)
PathBoxes(ps) ==
    IF ps = <<>> THEN {}
    ELSE {BoundingBox(Min(Head(ps).source.x, Head(ps).target.x),
                      Min(Head(ps).source.y, Head(ps).target.y),
                      Max(Head(ps).source.x, Head(ps).target.x),
                      Max(Head(ps).source.y, Head(ps).target.y))} \cup PathBoxes(Tail(ps))

RECURSIVE SceneBoxes(_)
SceneBoxes(sc) ==
    IF sc = <<>> THEN {}
    ELSE {FromRect(Head(sc).rects[i]) : i \in 1..Len(Head(sc).rects)}
         \cup (IF Head(sc).viewport.width > 0 /\ Head(sc).viewport.height > 0
               THEN {FromRect(Head(sc).viewport)} ELSE {})
         \cup PathBoxes(Head(sc).paths)
         \cup SceneBoxes(Tail(sc))

MinOf(S) == CHOOSE x \in S : \A y \in S : x <= y
MaxOf(S) == CHOOSE x \in S : \A y \in S : x >= y

\* BoundingBox.fromRect(svg.node()?.getBBox())
SvgBBox(sc) ==
    LET boxes == SceneBoxes(sc)
    IN  IF boxes = {} THEN BoundingBox(0, 0, 0, 0)
        ELSE BoundingBox(MinOf({b.minX : b \in boxes}), MinOf({b.minY : b \in boxes}),
                         MaxOf({b.maxX : b \in boxes}), MaxOf({b.maxY : b \in boxes}))

\* Mutant of DistSq: the farthest top-left corner counts as the nearest.
DistSqFarthest(bbox, p) == 0 - Vector2LenSq(Vector2(bbox.minX - p.x, bbox.minY - p.y))

\* Vector2.lenSq(new Vector2(bbox.minX - x, bbox.minY - y))
DistSq(bbox, p) == Vector2LenSq(Vector2(bbox.minX - p.x, bbox.minY - p.y))

\* Mutant of Nearest: the first candidate is kept whatever the distances.
NearestKeepsFirst(ids, best, p) == best

\* The "focus to nearest node" loop over target_nodes (host nodes, by id).
RECURSIVE Nearest(_, _, _)
Nearest(ids, best, p) ==
    IF ids = <<>> THEN best
    ELSE LET current_bbox == NodeBBox(NodeTable[Head(ids)])
         IN  Nearest(Tail(ids),
                     IF DistSq(current_bbox, p) < DistSq(best, p) THEN current_bbox ELSE best,
                     p)

TypeErrorNav == [NoNav EXCEPT !.call = "TypeError"]

\* Mutant of StrategyFor: the Ctrl modifier is not consulted.
StrategyPrimaryOnly(s, ctrl) == s.settings.primaryNavigationStrategy

\* Keymap.isModifier(e, 'Ctrl') ? secondaryNavigationStrategy : primaryNavigationStrategy
StrategyFor(s, ctrl) ==
    IF ctrl THEN s.settings.secondaryNavigationStrategy
    ELSE s.settings.primaryNavigationStrategy

\* Mutant of Navigate: ZOOM sets the host's viewport itself instead of calling zoomToBbox.
NavigateSetViewport(navigation_strategy, bbox) ==
    CASE navigation_strategy = "PAN" ->
           [call |-> "panTo", x1 |-> bbox.minX + (bbox.maxX - bbox.minX) \div 2,
            y1 |-> bbox.minY + (bbox.maxY - bbox.minY) \div 2, x2 |-> 0, y2 |-> 0]
      [] navigation_strategy = "ZOOM" ->
           [call |-> "setViewport", x1 |-> bbox.minX, y1 |-> bbox.minY,
            x2 |-> bbox.maxX, y2 |-> bbox.maxY]
      [] OTHER -> NoNav

\* Mutant of Navigate: PAN goes to the top-left corner of the box, not its centre.
NavigateCorner(navigation_strategy, bbox) ==
    CASE navigation_strategy = "PAN" ->
           [call |-> "panTo", x1 |-> bbox.minX, y1 |-> bbox.minY, x2 |-> 0, y2 |-> 0]
      [] navigation_strategy = "ZOOM" ->
           [call |-> "zoomToBbox", x1 |-> bbox.minX, y1 |-> bbox.minY,
            x2 |-> bbox.maxX, y2 |-> bbox.maxY]
      [] OTHER -> NoNav

\* What the host is asked to do for target box bbox under a navigation strategy (the
\* boxes of the model have even widths and heights, so the halves are exact).
Navigate(navigation_strategy, bbox) ==
    CASE navigation_strategy = "PAN" ->
           [call |-> "panTo", x1 |-> bbox.minX + (bbox.maxX - bbox.minX) \div 2,
            y1 |-> bbox.minY + (bbox.maxY - bbox.minY) \div 2, x2 |-> 0, y2 |-> 0]
      [] navigation_strategy = "ZOOM" ->
           [call |-> "zoomToBbox", x1 |-> bbox.minX, y1 |-> bbox.minY,
            x2 |-> bbox.maxX, y2 |-> bbox.maxY]
      [] OTHER -> NoNav

\* Mutant of ClickNav: target_nodes[0] is read without the length test.
ClickNavUnchecked(s, p, ctrl) ==
    IF s.isSvgDragging \/ s.isRightDragging THEN NoNav
    ELSE LET active_canvas == getActiveCanvas(s)
             hit == SelectSeq(SvgRects(s.scene), LAMBDA n : BBoxContains(FromRect(n), p))
             ids == [i \in 1..Len(hit) |-> hit[i].id]
         IN  IF ~BBoxContains(SvgBBox(s.scene), p) THEN NoNav
             ELSE IF hit = <<>> \/ active_canvas = "null" THEN TypeErrorNav
             ELSE IF \E i \in 1..Len(ids) : ~InSeq(ids[i], nodes[active_canvas])
                  THEN TypeErrorNav
             ELSE Navigate(StrategyFor(s, ctrl), Nearest(ids, NodeBBox(NodeTable[ids[1]]), p))

\* The svg 'click' handler for a click at p with or without the Ctrl modifier: the
\* host call it makes, or the TypeError it dies of (active_canvas.nodes with no
\* active canvas; .bbox of a node that nodes.get(id) did not find).
ClickNav(s, p, ctrl) ==
    IF s.isSvgDragging \/ s.isRightDragging THEN NoNav
    ELSE LET active_canvas == getActiveCanvas(s)
             svg_bbox == SvgBBox(s.scene)
             svg_nodes == SvgRects(s.scene)
             hit == SelectSeq(svg_nodes, LAMBDA n : BBoxContains(FromRect(n), p))
             ids == [i \in 1..Len(hit) |-> hit[i].id]
         IN  IF ~BBoxContains(svg_bbox, p) THEN NoNav
             ELSE IF hit = <<>> THEN NoNav
             ELSE IF active_canvas = "null" THEN TypeErrorNav
             ELSE IF \E i \in 1..Len(ids) : ~InSeq(ids[i], nodes[active_canvas])
                  THEN TypeErrorNav
             ELSE Navigate(StrategyFor(s, ctrl), Nearest(ids, NodeBBox(NodeTable[ids[1]]), p))

\* 'click' on the svg of the overlay.
SvgClick(p, ctrl) ==
    /\ loaded
    /\ minimap
    /\ Become(Cur)
    /\ handler' = "svg-click"
    /\ trace' = <<>>
    /\ frame' = <<>>
    /\ gesture' = "none"
    /\ nav' = ClickNav(Cur, p, ctrl)
    /\ click' = [on |-> TRUE, x |-> p.x, y |-> p.y, ctrl |-> ctrl]
    /\ UNCHANGED <<hostVars, loaded, layoutReady>>

\* 'mousedown' on the svg: button 0 starts a left drag, button 2 a right drag.
SvgMouseDown(button) ==
    /\ loaded
    /\ minimap
    /\ RanGesture("user",
                  IF button = 0 THEN [Cur EXCEPT !.isSvgDragging = TRUE]
                  ELSE IF button = 2 THEN [Cur EXCEPT !.isRightDragging = TRUE]
                  ELSE Cur,
                  IF button = 0 \/ button = 2 THEN "pressed" ELSE "none")
    /\ UNCHANGED <<hostVars, loaded, layoutReady>>

\* handleSvgMouseUp of the overlay in the document (a document 'mouseup' listener).
DocMouseUp ==
    /\ loaded
    /\ minimap
    /\ isSvgDragging \/ isRightDragging
    /\ RanGesture("user", [Cur EXCEPT !.isSvgDragging = FALSE, !.isRightDragging = FALSE],
                  IF gesture = "moved" /\ isSvgDragging THEN "drag-end" ELSE "none")
    /\ UNCHANGED <<hostVars, loaded, layoutReady>>

\* The division of handleSvgMouseMove leaves no remainder for this movement.
PanIsExact(s, deltaX, deltaY) ==
    /\ s.viewBox[3] > 0 /\ s.viewBox[4] > 0
    /\ (deltaX * s.viewBox[3]) % s.settings.width = 0
    /\ (deltaY * s.viewBox[4]) % s.settings.height = 0

\* handleSvgMouseMove(e) of the overlay in the document: scaleX = settings.width /
\* width, scaleY = settings.height / height, actualDeltaX = -deltaX / scaleX,
\* actualDeltaY = -deltaY / scaleY, so actualDeltaX = -(deltaX * width) /
\* settings.width and likewise for y (computed for movements that divide evenly).
handleSvgMouseMove(s, deltaX, deltaY) ==
    IF s.isSvgDragging \/ s.isRightDragging
    THEN LET x == s.viewBox[1]
             y == s.viewBox[2]
             width == s.viewBox[3]
             height == s.viewBox[4]
             actualDeltaX == -((deltaX * width) \div s.settings.width)
             actualDeltaY == -((deltaY * height) \div s.settings.height)
         IN  [s EXCEPT !.viewBox = <<x + actualDeltaX, y + actualDeltaY, width, height>>]
    ELSE s

Abs(n) == IF n < 0 THEN -n ELSE n

\* The viewBox origin of s is within MaxPan of where renderMinimap put it.
WithinPan(s) ==
    /\ Abs(s.viewBox[1] - s.canvas_bounds.minX) <= MaxPan
    /\ Abs(s.viewBox[2] - s.canvas_bounds.minY) <= MaxPan

\* A document 'mousemove' that reaches handleSvgMouseMove of the overlay.
SvgMouseMove(deltaX, deltaY) ==
    /\ loaded
    /\ minimap
    /\ PanIsExact(Cur, deltaX, deltaY)
    /\ WithinPan(handleSvgMouseMove(Cur, deltaX, deltaY))
    /\ RanGesture("svg-mousemove", handleSvgMouseMove(Cur, deltaX, deltaY),
                  IF isSvgDragging \/ isRightDragging THEN "moved" ELSE "none")
    /\ UNCHANGED <<hostVars, loaded, layoutReady>>

\* ------------------------------------------------------------- resize drag

\* Math.max(50, Math.min(base, current * zoomFactor)) with zoomFactor 0.9 for
\* deltaY < 0 and 1.1 otherwise, in tenths: current * zoomFactor = n / 10.
ZoomedLength(base, current, deltaY) ==
    LET n == current * (IF deltaY < 0 THEN 9 ELSE 11)
    IN  IF n >= 10 * base THEN Max(50, base)
        ELSE IF n <= 500 THEN 50
        ELSE n \div 10

\* current + (mouse - current) * (1 - newLength / currentLength)
ZoomedOrigin(current, mouse, currentLength, newLength) ==
    current + ((mouse - current) * (currentLength - newLength)) \div currentLength

\* The wheel handler's numbers are whole: the viewBox has a size, the scaled width
\* and height are whole or clamped, and so are the new coordinates.
WheelIsExact(s, deltaY, mouse) ==
    LET n(len) == len * (IF deltaY < 0 THEN 9 ELSE 11)
        whole(base, len) == n(len) >= 10 * base \/ n(len) <= 500 \/ n(len) % 10 = 0
        newWidth == ZoomedLength(BBoxWidth(s.canvas_bounds), s.viewBox[3], deltaY)
        newHeight == ZoomedLength(BBoxHeight(s.canvas_bounds), s.viewBox[4], deltaY)
    IN  /\ s.viewBox[3] > 0 /\ s.viewBox[4] > 0
        /\ whole(BBoxWidth(s.canvas_bounds), s.viewBox[3])
        /\ whole(BBoxHeight(s.canvas_bounds), s.viewBox[4])
        /\ ((mouse.x - s.viewBox[1]) * (s.viewBox[3] - newWidth)) % s.viewBox[3] = 0
        /\ ((mouse.y - s.viewBox[2]) * (s.viewBox[4] - newHeight)) % s.viewBox[4] = 0

\* The svg 'wheel' handler: with Ctrl held the viewBox is scaled about the mouse
\* position, between 50 and the size of canvas_bounds; without Ctrl nothing is done.
handleWheel(s, ctrlKey, deltaY, mouse) ==
    IF ctrlKey
    THEN LET baseViewWidth == BBoxWidth(s.canvas_bounds)
             baseViewHeight == BBoxHeight(s.canvas_bounds)
             currentX == s.viewBox[1]
             currentY == s.viewBox[2]
             currentWidth == s.viewBox[3]
             currentHeight == s.viewBox[4]
             newWidth == ZoomedLength(baseViewWidth, currentWidth, deltaY)
             newHeight == ZoomedLength(baseViewHeight, currentHeight, deltaY)
             newCenterX == ZoomedOrigin(currentX, mouse.x, currentWidth, newWidth)
             newCenterY == ZoomedOrigin(currentY, mouse.y, currentHeight, newHeight)
         IN  [s EXCEPT !.viewBox = <<newCenterX, newCenterY, newWidth, newHeight>>]
    ELSE s

\* 'wheel' on the svg of the overlay, the mouse at the user-space point mouse.
SvgWheel(ctrlKey, deltaY, mouse) ==
    /\ loaded
    /\ minimap
    /\ WheelIsExact(Cur, deltaY, mouse)
    /\ WithinPan(handleWheel(Cur, ctrlKey, deltaY, mouse))
    /\ Ran(IF ctrlKey THEN "svg-ctrl-wheel" ELSE "svg-wheel",
           handleWheel(Cur, ctrlKey, deltaY, mouse))
    /\ UNCHANGED <<hostVars, loaded, layoutReady>>

\* startResize(e, horizontal, vertical): 'mousedown' on a resize area of the overlay.
StartResize(horizontal, vertical) ==
    /\ loaded
    /\ minimap
    /\ ~resize.on
    /\ Ran("user",
           [Cur EXCEPT !.resize =
               [ on |-> TRUE, detached |-> FALSE, canvas |-> overlayCanvas,
                 horizontal |-> horizontal, vertical |-> vertical,
                 startWidth |-> divStyle.width, startHeight |-> divStyle.height,
                 startLeft |-> divStyle.left, startTop |-> divStyle.top ],
                       !.docListeners.mousemove = @ + 1, !.docListeners.mouseup = @ + 1])
    /\ UNCHANGED <<hostVars, loaded, layoutReady>>

\* The new width, height, left and top that handleMouseMove computes.
ResizedStyle(r, deltaX, deltaY) ==
    LET potentialNewWidth == r.startWidth - deltaX
        potentialNewHeight == r.startHeight - deltaY
        leftOk == r.horizontal = "left" /\ potentialNewWidth >= 200
        topOk == r.vertical = "top" /\ potentialNewHeight >= 150
    IN  [ width |-> IF r.horizontal = "right" \/ r.horizontal = "both"
                    THEN Max(200, r.startWidth + deltaX)
                    ELSE IF leftOk THEN potentialNewWidth ELSE r.startWidth,
          height |-> IF r.vertical = "bottom" \/ r.vertical = "both"
                     THEN Max(150, r.startHeight + deltaY)
                     ELSE IF topOk THEN potentialNewHeight ELSE r.startHeight,
          left |-> IF leftOk THEN r.startLeft + deltaX ELSE r.startLeft,
          top |-> IF topOk THEN r.startTop + deltaY ELSE r.startTop ]

\* handleMouseMove of a resize drag: restyle the div of the drag, copy the new size
\* and place into the settings, saveSettings() un-awaited, then renderMinimap on
\* whatever '#_minimap_>svg' selects now, for the canvas of the drag's closure.
handleMouseMove(s, deltaX, deltaY) ==
    LET new == ResizedStyle(s.resize, deltaX, deltaY)
        s1 == IF s.resize.detached THEN s ELSE [s EXCEPT !.divStyle = new]
        s2 == [s1 EXCEPT !.settings.width = new.width, !.settings.height = new.height,
                         !.settings.positionX = new.left, !.settings.positionY = new.top]
    IN  renderMinimap(saveSettings(s2), s2.minimap, s.resize.canvas)

ResizeMouseMove(deltaX, deltaY) ==
    /\ loaded
    /\ resize.on
    /\ pendingSaves < MaxPending
    /\ minimap => Len(scene) < MaxBatches
    /\ Ran("resize-mousemove", handleMouseMove(Cur, deltaX, deltaY))
    /\ UNCHANGED <<hostVars, loaded, layoutReady>>

\* handleMouseUp of a resize drag: its two document listeners are removed.
ResizeMouseUp ==
    /\ loaded
    /\ resize.on
    /\ Ran("user", [Cur EXCEPT !.resize = NoResize, !.docListeners.mousemove = @ - 1,
                                !.docListeners.mouseup = @ - 1])
    /\ UNCHANGED <<hostVars, loaded, layoutReady>>

\* Mouse movements (deltaX, deltaY) since the mousedown of a resize drag.
ResizeDeltas == {<<0, 0>>, <<-300, -200>>}

\* ------------------------------------------------------------ specification

\* Plugin lifecycle: workspace, vault, command and settings callbacks.
Lifecycle ==
    \/ LayoutReady
    \/ \E v \in Views : ActiveLeafChange(v)
    \/ WorkspaceResize
    \/ \E f \in BOOLEAN : VaultModify(f)
    \/ ReloadCommand
    \/ ToggleCommand
    \/ \E v \in BOOLEAN : SetEnabled(v)
    \/ \E v \in BOOLEAN : SetDrawActiveViewport(v)
    \/ SaveDone
    \/ CloseClick
    \/ PluginUnload

\* The host calling the (possibly wrapped) prototype methods and moving the viewport.
HostCalls ==
    \/ \E m \in HostMethods, recv \in Canvases : \E arg \in HostArgs(m) : HostCall(m, recv, arg)
    \/ \E b \in ViewportBoxes : HostViewportChange(b)

\* The user editing the active canvas.
HostEdits ==
    \/ \E c \in Canvases : \E id \in NodeIdsOf(c) : HostAddNode(id)
    \/ \E c \in Canvases : \E id \in NodeIdsOf(c) : HostDeleteNode(id)
    \/ \E c \in Canvases : \E e \in EdgeIdsOf(c) : HostAddEdge(e)

Next == Lifecycle \/ HostCalls

Spec == Init /\ [][Next]_vars

\* Clicks and drags on the svg of the overlay.
Pointer ==
    \/ \E p \in ClickPoints, ctrl \in BOOLEAN : SvgClick(p, ctrl)
    \/ \E button \in {0, 2} : SvgMouseDown(button)
    \/ DocMouseUp

\* A resize drag on the right edge of the overlay.
Resizing ==
    \/ StartResize("right", "both")
    \/ \E d \in ResizeDeltas : ResizeMouseMove(d[1], d[2])
    \/ ResizeMouseUp

\* The default settings, as when no data has been saved yet.
SceneInit == Init /\ settings = DEFAULT_SETTINGS /\ viewportBBox.minX = 0

\* Rendering and clicking while the user edits the canvas.
SceneNext ==
    \/ LayoutReady
    \/ \E v \in Views : ActiveLeafChange(v)
    \/ VaultModify(TRUE)
    \/ HostEdits
    \/ Pointer

SceneSpec == SceneInit /\ [][SceneNext]_vars

\* Rendering and resizing while the user edits the canvas.
ResizeNext ==
    \/ \E v \in Views : ActiveLeafChange(v)
    \/ VaultModify(TRUE)
    \/ SaveDone
    \/ HostEdits
    \/ Resizing

ResizeSpec == SceneInit /\ [][ResizeNext]_vars

\* A canvas file is open when the plugin loads; the navigation strategies come from
\* the saved settings.
HitInit ==
    /\ activeView = "cA"
    /\ nodes \in {[cA |-> l, cB |-> <<"n2">>] : l \in HitLayouts}
    /\ edges = [cA |-> <<>>, cB |-> <<>>]
    /\ viewportBBox \in ViewportBoxes /\ viewportBBox.minX = 0
    /\ \E pr \in CanvasNavigationStrategy, se \in CanvasNavigationStrategy :
          /\ <<pr, se>> \in {<<"ZOOM", "PAN">>, <<"PAN", "ZOOM">>, <<"NONE", "ZOOM">>}
          /\ settings = [DEFAULT_SETTINGS EXCEPT !.primaryNavigationStrategy = pr,
                                                !.secondaryNavigationStrategy = se]
    /\ InitPlugin

\* Rendering with different margins, and clicking what was rendered.
HitNext ==
    \/ LayoutReady
    \/ \E text \in MarginTexts : SetMargin(text)
    \/ SaveDone
    \/ \E p \in HitPoints, ctrl \in BOOLEAN : SvgClick(p, ctrl)

HitSpec == HitInit /\ [][HitNext]_vars

\* A canvas file with groups, labels and edges is open when the plugin loads.
DrawInit ==
    /\ activeView = "cA"
    /\ nodes \in {[cA |-> l, cB |-> <<"n2">>] : l \in DrawLayouts}
    /\ edges \in {[cA |-> l, cB |-> <<>>] : l \in EdgeLayouts}
    /\ viewportBBox \in ViewportBoxes /\ viewportBBox.minX = 0
    /\ \E m \in {0, 100} : settings = [DEFAULT_SETTINGS EXCEPT !.margin = m]
    /\ InitPlugin

\* Rendering that canvas again and again, and the host calling the wrapped methods.
DrawNext ==
    \/ LayoutReady
    \/ VaultModify(TRUE)
    \/ ReloadCommand
    \/ \E m \in HostMethods : \E arg \in HostArgs(m) : HostCall(m, "cA", arg)

DrawSpec == DrawInit /\ [][DrawNext]_vars

\* Panning the rendered minimap with a left or right drag.
PanInit ==
    /\ activeView = "cA"
    /\ nodes \in {[cA |-> l, cB |-> <<"n2">>] : l \in {<<"g1", "n1">>, <<"n1", "g2">>}}
    /\ edges = [cA |-> <<>>, cB |-> <<>>]
    /\ viewportBBox \in ViewportBoxes /\ viewportBBox.minX = 0
    /\ \E m \in {0, 100} : settings = [DEFAULT_SETTINGS EXCEPT !.margin = m]
    /\ InitPlugin

PanNext ==
    \/ LayoutReady
    \/ \E button \in {0, 2} : SvgMouseDown(button)
    \/ \E d \in PanDeltas : SvgMouseMove(d[1], d[2])
    \/ DocMouseUp
    \/ \E p \in ClickPoints, ctrl \in BOOLEAN : SvgClick(p, ctrl)

PanSpec == PanInit /\ [][PanNext]_vars

\* The eight resize areas: the (horizontal, vertical) pair each passes to startResize.
ResizeHandles ==
    { <<"right", "both">>, <<"left", "both">>, <<"both", "bottom">>, <<"both", "top">>,
      <<"left", "top">>, <<"right", "top">>, <<"left", "bottom">>, <<"right", "bottom">> }

\* One canvas file with the default settings.
HandleInit ==
    /\ activeView = "cA"
    /\ nodes = [cA |-> <<"g1", "n1">>, cB |-> <<"n2">>]
    /\ edges = [cA |-> <<>>, cB |-> <<>>]
    /\ viewportBBox \in ViewportBoxes /\ viewportBBox.minX = 0
    /\ settings = DEFAULT_SETTINGS
    /\ InitPlugin

\* Sizes typed into the settings tab, and resize drags on every handle.
HandleNext ==
    \/ LayoutReady
    \/ \E text \in SizeTexts : SetWidth(text)
    \/ \E text \in SizeTexts : SetHeight(text)
    \/ SaveDone
    \/ \E h \in ResizeHandles : StartResize(h[1], h[2])
    \/ \E d \in ResizeDeltas : ResizeMouseMove(d[1], d[2])
    \/ ResizeMouseUp

HandleSpec == HandleInit /\ [][HandleNext]_vars

\* Small canvas files, with a small margin or none, open when the plugin loads.
WheelInit ==
    /\ activeView = "cA"
    /\ nodes \in {[cA |-> l, cB |-> <<"n2">>] : l \in WheelLayouts}
    /\ edges = [cA |-> <<>>, cB |-> <<>>]
    /\ viewportBBox \in ViewportBoxes /\ viewportBBox.minX = 0
    /\ \E m \in {0, 10, 100} : settings = [DEFAULT_SETTINGS EXCEPT !.margin = m]
    /\ InitPlugin

\* Zooming the minimap's view with the wheel, and rendering again.
WheelNext ==
    \/ LayoutReady
    \/ ReloadCommand
    \/ \E ctrlKey \in BOOLEAN, deltaY \in WheelDeltas, mouse \in WheelPoints :
           SvgWheel(ctrlKey, deltaY, mouse)

WheelSpec == WheelInit /\ [][WheelNext]_vars

\* A canvas file is open when the plugin loads, with the default settings.
IndicatorInit ==
    /\ activeView = "cA"
    /\ nodes \in {[cA |-> l, cB |-> <<"n2">>] : l \in {<<>>, <<"n2">>, <<"p1", "n2">>}}
    /\ edges = [cA |-> <<>>, cB |-> <<>>]
    /\ viewportBBox \in ViewportBoxes
    /\ settings = DEFAULT_SETTINGS
    /\ InitPlugin

\* The host draws frames and moves its viewport; the user clicks the minimap.
IndicatorNext ==
    \/ LayoutReady
    \/ HostCall("requestFrame", "cA", "undefined")
    \/ \E b \in ViewportBoxes : HostViewportChange(b)
    \/ \E p \in HitPoints, ctrl \in BOOLEAN : SvgClick(p, ctrl)

IndicatorSpec == IndicatorInit /\ [][IndicatorNext]_vars

\* The workspace, vault, command and settings callbacks alone, with nothing drawn
\* again by the host in between.
LifecycleSpec == Init /\ [][Lifecycle]_vars

\* ------------------------------------------------------------------ claims

ReloadHandlers == {"active-leaf-change", "resize", "modify", "reload-command", "saveSettings"}

Emits(tr) == {i \in 1..Len(tr) : tr[i].op = "emit"}
Origs(tr) == {i \in 1..Len(tr) : tr[i].op = "orig"}

\* C1: once patchCanvas has run (one or more setupMinimap/reloadMinimap calls), one
\* call of a host method emits its canvas event exactly once.
C1_EmitsExactlyOnce ==
    (trace # <<>> /\ canvas_patched) => Cardinality(Emits(trace)) = 1

\* C2: when unloadMinimap() returns, no #_minimap_ and no #_minimap_toolbar_ element
\* is in the document and no CANVAS_TICK handler is registered.
C2_TeardownComplete ==
    unloadSnap.called =>
        /\ ~unloadSnap.minimap
        /\ ~unloadSnap.toolbar
        /\ unloadSnap.subs = 0

\* C3: when unloadMinimap() returns, the uninstaller has run: no wrapper layer is
\* left on the four prototype methods.
C3_UnloadUninstallsPatch ==
    unloadSnap.called => unloadSnap.wrappers = 0

\* C4: after a reload (active-leaf-change, resize, modify, reload command,
\* saveSettings) that ends with an enabled minimap on an active canvas there is
\* exactly one overlay, created by that reload, one CANVAS_TICK handler and one
\* wrapper layer.
C4_CleanReentry ==
    (handler \in ReloadHandlers /\ activeView \in Canvases /\ settings.enabled) =>
        /\ unloadSnap.called
        /\ minimap /\ ~stale
        /\ subs = 1
        /\ wrappers = 1

\* C5: after the active-leaf-change handler for a change from a canvas to a
\* non-canvas view, no #_minimap_ element exists and no CANVAS_TICK handler is
\* registered.
C5_LeavingCanvasDestroysOverlay ==
    (handler = "active-leaf-change" /\ activeView \notin Canvases) =>
        /\ ~minimap
        /\ subs = 0

\* C6: one call of a wrapped host method runs the original exactly once, with the
\* receiver and argument of the call, and every event it dispatches is the method's
\* own event, dispatched after the original has returned.
C6_OriginalOnceThenEvent ==
    (trace # <<>> /\ wrappers >= 1) =>
        /\ Origs(trace) = {2}
        /\ trace[2].m = trace[1].m
        /\ trace[2].recv = trace[1].recv
        /\ trace[2].arg = trace[1].arg
        /\ Emits(trace) = 3..Len(trace)
        /\ Emits(trace) # {}
        /\ \A i \in Emits(trace) : trace[i].m = EventOf(trace[1].m)

C6_Witness ==
    /\ trace # <<>>
    /\ wrappers >= 1
    /\ trace[1].m = "markMoved"
    /\ trace[1].arg = "n1"
    /\ Len(trace) >= 3

\* The part of a scene batch a CANVAS_TICK must leave alone.
Drawn(b) == [rects |-> b.rects, texts |-> b.texts, paths |-> b.paths]

IndicatorAt(box) ==
    [id |-> "minimap_viewport", x |-> box.minX, y |-> box.minY,
     width |-> box.maxX - box.minX, height |-> box.maxY - box.minY,
     fill |-> "azure", stroke |-> "orange"]

\* A step that is one requestFrame call through at least one wrapper layer.
TickStep == trace' # <<>> /\ trace'[1].m = "requestFrame" /\ wrappers >= 1

\* C7: handling CANVAS_TICK changes nothing but the attributes of the first
\* #minimap_viewport rectangle, which become the canvas's current viewport box; with
\* drawActiveViewport off or no canvas active it changes nothing at all.
C7_TickOnlyMovesIndicator ==
    [][TickStep =>
        /\ UNCHANGED <<hostVars, pluginVars, minimap, toolbar, viewBox, divStyle, overlayCanvas,
                       isSvgDragging, isRightDragging, resize, stale, docListeners>>
        /\ Len(scene') = Len(scene)
        /\ \A i \in 1..Len(scene) : Drawn(scene'[i]) = Drawn(scene[i])
        /\ \A i \in 2..Len(scene) : scene'[i].viewport = scene[i].viewport
        /\ (scene # <<>> /\ scene'[1].viewport # scene[1].viewport)
              => scene'[1].viewport = IndicatorAt(viewportBBox)
        /\ (~settings.drawActiveViewport \/ activeView \notin Canvases) => scene' = scene
        /\ (settings.drawActiveViewport /\ activeView \in Canvases /\ subs >= 1 /\ scene # <<>>)
              => scene'[1].viewport = IndicatorAt(viewportBBox)
      ]_vars

C7_Witness ==
    /\ trace # <<>>
    /\ trace[1].m = "requestFrame"
    /\ scene # <<>>
    /\ scene[1].viewport = IndicatorAt(viewportBBox)
    /\ scene[1].rects # <<>>

\* C8: a host call that emitted CANVAS_MOVED, CANVAS_DIRTY or CANVAS_VIEWPORT_CHANGED
\* ran a full reload of the minimap (unloadMinimap, then setupMinimap) before it
\* returned.
C8_MutationEventsReload ==
    (trace # <<>> /\ trace[1].m # "requestFrame" /\ Emits(trace) # {}) => unloadSnap.called

\* The callbacks that end with a renderMinimap call when the minimap is enabled and
\* a canvas is there to draw.
RenderHandlers == ReloadHandlers \cup {"onLayoutReady", "resize-mousemove"}

\* The canvas the last callback handed to renderMinimap.
RenderedCanvas == IF handler = "resize-mousemove" THEN resize.canvas ELSE getActiveCanvas(Cur)

RECURSIVE ScenePaths(_)
ScenePaths(sc) == IF sc = <<>> THEN <<>> ELSE Head(sc).paths \o ScenePaths(Tail(sc))

RectsWithId(sc, id) == {i \in 1..Len(SvgRects(sc)) : SvgRects(sc)[i].id = id}

\* C9: after a callback that called renderMinimap, the svg holds exactly one
\* rectangle per node of the rendered canvas, one path per edge and exactly one
\* #minimap_viewport indicator, whatever was rendered on that svg before.
C9_RenderReplacesScene ==
    (handler \in RenderHandlers /\ minimap /\ settings.enabled /\ RenderedCanvas # "null") =>
        /\ Len(SvgRects(scene)) = Len(nodes[RenderedCanvas])
        /\ \A i \in 1..Len(nodes[RenderedCanvas]) :
              Cardinality(RectsWithId(scene, nodes[RenderedCanvas][i])) = 1
        /\ Len(ScenePaths(scene)) = Len(edges[RenderedCanvas])
        /\ Len(scene) = 1

\* C10: a click on the minimap while a canvas is active never dereferences a node
\* that the canvas's node map does not hold (the handler does not end in a
\* TypeError), also after nodes were added or deleted since the last render.
C10_ClickNeverStale ==
    (handler = "svg-click" /\ activeView \in Canvases) => nav.call # "TypeError"

\* ---- clicks: what the last click hit, seen from the state it left behind

ClickPoint == Vector2(click.x, click.y)

\* The rendered node rectangles that contain the click point, in document order.
Candidates == SelectSeq(SvgRects(scene), LAMBDA n : BBoxContains(FromRect(n), ClickPoint))

\* The last callback was a click that hit at least one rectangle, every hit rectangle
\* standing for a node the active canvas still holds, with no drag in progress.
ClickResolved ==
    /\ handler = "svg-click" /\ click.on
    /\ ~isSvgDragging /\ ~isRightDragging
    /\ activeView \in Canvases
    /\ Candidates # <<>>
    /\ \A i \in 1..Len(Candidates) : InSeq(Candidates[i].id, nodes[activeView])

CornerDistSq(n) ==
    (NodeTable[n.id].x - click.x) * (NodeTable[n.id].x - click.x)
    + (NodeTable[n.id].y - click.y) * (NodeTable[n.id].y - click.y)

\* The candidate with the smallest squared distance, the first of them on a tie.
TargetIndex ==
    CHOOSE i \in 1..Len(Candidates) :
        /\ \A j \in 1..Len(Candidates) : CornerDistSq(Candidates[i]) <= CornerDistSq(Candidates[j])
        /\ \A j \in 1..(i - 1) : CornerDistSq(Candidates[j]) > CornerDistSq(Candidates[i])

TargetBox == NodeBBox(NodeTable[Candidates[TargetIndex].id])

NavBox == BoundingBox(nav.x1, nav.y1, nav.x2, nav.y2)

\* The navigation call went to box b: zoomToBbox(b), or panTo(the centre of b).
NavGoesTo(b) ==
    /\ nav.call = "zoomToBbox" => NavBox = b
    /\ nav.call = "panTo" => (2 * nav.x1 = b.minX + b.maxX /\ 2 * nav.y1 = b.minY + b.maxY)

UsedStrategy ==
    IF click.ctrl THEN settings.secondaryNavigationStrategy
    ELSE settings.primaryNavigationStrategy

RenderedIds == {SvgRects(scene)[i].id : i \in 1..Len(SvgRects(scene))}

\* C11: when several rendered rectangles contain the click point, the navigation
\* target is the candidate whose top-left corner has the smallest squared distance to
\* the click point, the first candidate in render order on an exact tie.
C11_NearestCornerWins ==
    ClickResolved => (nav.call # "TypeError" /\ NavGoesTo(TargetBox))

C11_Witness ==
    /\ ClickResolved
    /\ click.x = 50 /\ click.y = 50
    /\ {"p1", "p2"} \subseteq RenderedIds
    /\ nav.call = "zoomToBbox"
    /\ NavBox = NodeBBox(NodeTable["p2"])

\* C12: a click that hits a node uses secondaryNavigationStrategy when Ctrl is held
\* and primaryNavigationStrategy otherwise, and makes the one host call of that
\* strategy (zoomToBbox for ZOOM, panTo for PAN, none for NONE).
C12_CtrlPicksSecondary ==
    ClickResolved =>
        nav.call = (CASE UsedStrategy = "PAN" -> "panTo"
                      [] UsedStrategy = "ZOOM" -> "zoomToBbox"
                      [] OTHER -> "none")

C12_Witness ==
    /\ ClickResolved
    /\ click.ctrl
    /\ settings.primaryNavigationStrategy = "ZOOM"
    /\ settings.secondaryNavigationStrategy = "PAN"
    /\ nav.call = "panTo"

\* C13: on target box b, PAN calls panTo with the centre of b and nothing else, ZOOM
\* calls zoomToBbox(b) and nothing else, NONE calls neither host method.
C13_StrategyExecution ==
    ClickResolved =>
        /\ UsedStrategy = "PAN" =>
              /\ nav.call = "panTo"
              /\ 2 * nav.x1 = TargetBox.minX + TargetBox.maxX
              /\ 2 * nav.y1 = TargetBox.minY + TargetBox.maxY
        /\ UsedStrategy = "ZOOM" => (nav.call = "zoomToBbox" /\ NavBox = TargetBox)
        /\ UsedStrategy = "NONE" => nav = NoNav

C13_Witness ==
    /\ ClickResolved
    /\ UsedStrategy = "PAN"
    /\ Candidates[TargetIndex].id = "p2"
    /\ nav.call = "panTo" /\ nav.x1 = 55 /\ nav.y1 = 55

\* C14: a click outside the rendered extent, or inside it but inside no node
\* rectangle, makes no host call, raises no error and changes nothing.
C14_MissDoesNothing ==
    [][(/\ click'.on
        /\ LET p == Vector2(click'.x, click'.y)
           IN  \/ ~BBoxContains(SvgBBox(scene), p)
               \/ \A i \in 1..Len(SvgRects(scene)) : ~BBoxContains(FromRect(SvgRects(scene)[i]), p))
       => (nav' = NoNav /\ UNCHANGED <<hostVars, pluginVars, domVars>>)]_vars

C14_Witness ==
    /\ handler = "svg-click" /\ click.on
    /\ ~isSvgDragging /\ ~isRightDragging
    /\ BBoxContains(SvgBBox(scene), ClickPoint)
    /\ SvgRects(scene) # <<>>
    /\ Candidates = <<>>
    /\ nav = NoNav

\* ---- rendering: what the last callback's renderMinimap left behind

\* The last callback ended with renderMinimap on the active canvas.
FreshRender ==
    /\ handler \in ReloadHandlers \cup {"onLayoutReady"}
    /\ minimap /\ settings.enabled
    /\ activeView \in Canvases

\* canvas_bounds with the margin taken off again.
ContentBox ==
    BoundingBox(canvas_bounds.minX + settings.margin, canvas_bounds.minY + settings.margin,
                canvas_bounds.maxX - settings.margin, canvas_bounds.maxY - settings.margin)

\* min x, min y, max (x + width), max (y + height) over a non-empty list of nodes.
NodesExtent(ids) ==
    LET S == {NodeTable[ids[i]] : i \in 1..Len(ids)}
    IN  BoundingBox(MinOf({n.x : n \in S}), MinOf({n.y : n \in S}),
                    MaxOf({n.x + n.width : n \in S}), MaxOf({n.y + n.height : n \in S}))

\* C15: the content box renderMinimap computes is the extent of the nodes alone when
\* there are nodes, and the default box (0,0,0,0) when there are none.
C15_ContentBoxIsNodeExtent ==
    FreshRender =>
        ContentBox = (IF nodes[activeView] = <<>> THEN BoundingBox(0, 0, 0, 0)
                      ELSE NodesExtent(nodes[activeView]))

\* C16: after renderMinimap, canvas_bounds is the computed content box grown by
\* settings.margin on all four sides, and the viewBox is (canvas_bounds.minX,
\* canvas_bounds.minY, canvas_bounds.width(), canvas_bounds.height()).
C16_MarginAndViewBox ==
    FreshRender =>
        LET content == BBoxOver(nodes[activeView], BoundingBox(0, 0, 0, 0))
            m == settings.margin
        IN  /\ canvas_bounds = BoundingBox(content.minX - m, content.minY - m,
                                           content.maxX + m, content.maxY + m)
            /\ viewBox = <<canvas_bounds.minX, canvas_bounds.minY,
                           canvas_bounds.maxX - canvas_bounds.minX,
                           canvas_bounds.maxY - canvas_bounds.minY>>

C16_Witness ==
    /\ FreshRender
    /\ nodes[activeView] = <<"p1", "p2">>
    /\ settings.margin = 10
    /\ canvas_bounds = BoundingBox(-10, -10, 75, 75)
    /\ viewBox = <<-10, -10, 85, 85>>

\* Rectangle a of the svg contains rectangle b, and their top-left corners differ.
Encloses(a, b) ==
    /\ a.x <= b.x /\ a.y <= b.y
    /\ a.x + a.width >= b.x + b.width /\ a.y + a.height >= b.y + b.height
    /\ <<a.x, a.y>> # <<b.x, b.y>>

\* C17: a click inside a child rectangle that lies inside a group rectangle does not
\* resolve to the group; for group g1 (0,0,200,200), child n1 (50,50,20,20) and
\* margin 10 the viewBox is (-10,-10,220,220) and a click at (60,60) resolves to n1.
C17_ChildBeatsGroup ==
    /\ ClickResolved =>
          /\ \A i \in 1..Len(Candidates), j \in 1..Len(Candidates) :
                (IsGroup(Candidates[i].id) /\ IsChild(Candidates[j].id)
                     /\ Encloses(Candidates[i], Candidates[j]))
                => TargetIndex # i /\ ~(nav.call = "zoomToBbox"
                                        /\ NavBox = NodeBBox(NodeTable[Candidates[i].id]))
          /\ [i \in 1..Len(Candidates) |-> Candidates[i].id] = <<"g1", "n1">>
                => NavGoesTo(NodeBBox(NodeTable["n1"]))
    /\ (FreshRender /\ settings.margin = 10 /\ nodes[activeView] = <<"n1", "g1">>)
          => viewBox = <<-10, -10, 220, 220>>

C17_Witness ==
    /\ ClickResolved
    /\ click.x = 60 /\ click.y = 60
    /\ nodes[activeView] = <<"n1", "g1">>
    /\ settings.margin = 10
    /\ viewBox = <<-10, -10, 220, 220>>
    /\ nav.call = "zoomToBbox"
    /\ NavBox = BoundingBox(50, 50, 70, 70)

\* C18: with zero nodes the rendered viewBox has strictly positive width and height,
\* for every margin that can be configured.
C18_EmptyCanvasViewBox ==
    (FreshRender /\ nodes[activeView] = <<>>) => (viewBox[3] > 0 /\ viewBox[4] > 0)

\* C20: while no drag is in progress the plugin has at most the document listeners
\* of one overlay (one mousemove, one mouseup, one contextmenu), however many
\* setup/unload/reload cycles have run.
C20_DocumentListenersDoNotGrow ==
    (~resize.on /\ ~isSvgDragging /\ ~isRightDragging) =>
        /\ docListeners.mousemove <= 1
        /\ docListeners.mouseup <= 1
        /\ docListeners.contextmenu <= 1

\* ---- host calls step by step

FrameOps(op) == {i \in 1..Len(frame) : frame[i].op = op}

\* C21: dispatch is synchronous. In every host call through the wrappers, each
\* trigger() returns only after all the handlers of its event have run (for
\* CANVAS_TICK one run per registered handler, for the other events none), each
\* handler returns before the next one is called, all of it happens before the
\* wrapper that dispatched returns, and when the wrapped requestFrame has returned
\* the indicator already shows the viewport.
C21_DispatchIsSynchronous ==
    frame # <<>> =>
        /\ \A i \in FrameOps("handler") :
              i < Len(frame) /\ frame[i + 1] = Step("handler-returned", frame[i].layer)
        /\ \A i \in FrameOps("trigger") :
              \E j \in FrameOps("triggered") :
                 /\ j > i /\ frame[j].layer = frame[i].layer
                 /\ \A k \in (i + 1)..(j - 1) :
                       /\ frame[k].op \in {"handler", "handler-returned"}
                       /\ frame[k].layer = frame[i].layer
                 /\ Cardinality({k \in (i + 1)..(j - 1) : frame[k].op = "handler"})
                       = (IF handler = "requestFrame" THEN subs ELSE 0)
                 /\ \E r \in FrameOps("return") : r > j /\ frame[r].layer = frame[i].layer
        /\ frame[Len(frame)].op \in {"return", "original"}
        /\ (/\ handler = "requestFrame" /\ wrappers >= 1 /\ subs >= 1
            /\ settings.drawActiveViewport /\ activeView \in Canvases
            /\ FirstIndicator(scene) # 0)
              => scene[FirstIndicator(scene)].viewport = IndicatorAt(viewportBBox)

C21_Witness ==
    /\ handler = "requestFrame" /\ wrappers >= 2 /\ subs >= 2
    /\ Cardinality(FrameOps("handler")) >= 4
    /\ scene # <<>> /\ scene[1].viewport = IndicatorAt(viewportBBox)

\* C22: with no active canvas no callback ends in an exception, a click on a minimap
\* that is still in the document included.
C22_NoCanvasNoThrow ==
    activeView \notin Canvases => (nav.call # "TypeError" /\ ~thrown.thrown)

\* ---- what the last renderMinimap call appended

LastBatch == scene[Len(scene)]

InvalidSide(side) == side \notin {"left", "right", "top", "bottom"}

\* The places in the edge map of edges with a side that is none of the four.
BadEdges(ids) ==
    {i \in 1..Len(ids) : \/ InvalidSide(EdgeTable[ids[i]].from.side)
                         \/ InvalidSide(EdgeTable[ids[i]].to.side)}

\* C24: a render that meets an edge with a side other than left, right, top, bottom
\* ends in an error whose message names that side, and no path is appended for that
\* edge; a render that meets no such edge ends in no error.
C24_InvalidSideFailsFast ==
    FreshRender =>
        LET ids == edges[activeView]
            bad == BadEdges(ids)
        IN  IF bad = {} THEN ~thrown.thrown /\ Len(LastBatch.paths) = Len(ids)
            ELSE LET i == MinOf(bad)
                     e == EdgeTable[ids[i]]
                     side == IF InvalidSide(e.from.side) THEN e.from.side ELSE e.to.side
                 IN  /\ thrown.thrown
                     /\ thrown.message = <<"invalid side ", side>>
                     /\ Len(LastBatch.paths) = i - 1

C24_Witness ==
    /\ FreshRender
    /\ edges[activeView] = <<"e3", "e5", "e1">>
    /\ thrown.thrown /\ thrown.message[2] = "center"
    /\ Len(LastBatch.paths) = 1

\* C25: the plugin never changes the host canvas content. A step that changes
\* canvas.nodes or canvas.edges runs no plugin code at all, the only host calls a
\* callback makes are panTo and zoomToBbox, and it makes one only from a click that
\* is inside a rendered node rectangle while the strategy in force is PAN or ZOOM.
C25_HostContentReadOnly ==
    [][ /\ (nodes' # nodes \/ edges' # edges)
              => (/\ handler' = "user" /\ trace' = <<>> /\ nav' = NoNav
                  /\ UNCHANGED <<pluginVars, domVars>>)
        /\ nav'.call \in {"none", "TypeError", "panTo", "zoomToBbox"}
        /\ nav'.call \in {"panTo", "zoomToBbox"}
              => (/\ handler' = "svg-click" /\ click'.on
                  /\ UNCHANGED <<hostVars, pluginVars, domVars>>
                  /\ \E i \in 1..Len(SvgRects(scene)) :
                        BBoxContains(FromRect(SvgRects(scene)[i]), Vector2(click'.x, click'.y))
                  /\ nav'.call = (IF StrategyFor(Cur, click'.ctrl) = "PAN" THEN "panTo"
                                  ELSE "zoomToBbox")
                  /\ StrategyFor(Cur, click'.ctrl) \in {"PAN", "ZOOM"}) ]_vars

C25_Witness ==
    /\ handler = "svg-click" /\ click.on /\ nav.call = "panTo"
    /\ Candidates # <<>>
    /\ nodes[activeView] = <<"n1">>

\* The world movement a of the viewBox origin for the mouse movement d under the one
\* fit scale s = min(W / w, H / h) of the view box (w, h) onto the surface (W, H)
\* satisfies a * s = -d on both axes.
UniformWorldDelta(vb0, vb1, d, st) ==
    LET w == vb0[3]
        h == vb0[4]
    IN  IF st.width * h <= st.height * w
        THEN /\ (vb1[1] - vb0[1]) * st.width = -(d[1] * w)
             /\ (vb1[2] - vb0[2]) * st.width = -(d[2] * w)
        ELSE /\ (vb1[1] - vb0[1]) * st.height = -(d[1] * h)
             /\ (vb1[2] - vb0[2]) * st.height = -(d[2] * h)

\* C26: during a drag, moving the mouse by d and then by -d puts the viewBox origin
\* back where it was and leaves the viewBox width and height alone, and the origin
\* moves by d divided by the one uniform fit scale on both axes.
C26_PanRoundTrips ==
    (minimap /\ (isSvgDragging \/ isRightDragging)) =>
        \A d \in PanDeltas :
            PanIsExact(Cur, d[1], d[2]) =>
                LET s1 == handleSvgMouseMove(Cur, d[1], d[2])
                    s2 == handleSvgMouseMove(s1, -d[1], -d[2])
                IN  /\ s2.viewBox = viewBox
                    /\ s1.viewBox[3] = viewBox[3] /\ s1.viewBox[4] = viewBox[4]
                    /\ UniformWorldDelta(viewBox, s1.viewBox, d, settings)

\* C27: the font size of every group label is settings.fontSize divided by the fit
\* scale min(settings.width / viewBox width, settings.height / viewBox height) of the
\* padded box, a positive number, and every group with a label has its text.
C27_LabelScaleIsFitScale ==
    FreshRender =>
        LET w == viewBox[3]
            h == viewBox[4]
            fit == IF settings.width * h <= settings.height * w
                   THEN [num |-> settings.fontSize * w, den |-> settings.width]
                   ELSE [num |-> settings.fontSize * h, den |-> settings.height]
            labelled == SelectSeq(SelectSeq(nodes[activeView], IsGroup), HasLabel)
        IN  /\ Len(LastBatch.texts) = Len(labelled)
            /\ \A i \in 1..Len(LastBatch.texts) :
                  LET f == LastBatch.texts[i].fontSize
                  IN  /\ f.num > 0 /\ f.den > 0
                      /\ f.num * fit.den = fit.num * f.den

\* p is the midpoint of that side of the node's box (the boxes have even sizes).
IsSideMidpoint(p, n, side) ==
    CASE side = "left"   -> p.x = n.x /\ 2 * p.y = 2 * n.y + n.height
      [] side = "right"  -> p.x = n.x + n.width /\ 2 * p.y = 2 * n.y + n.height
      [] side = "top"    -> 2 * p.x = 2 * n.x + n.width /\ p.y = n.y
      [] side = "bottom" -> 2 * p.x = 2 * n.x + n.width /\ p.y = n.y + n.height
      [] OTHER -> FALSE

\* C28: the path of every edge uses the horizontal link when the side the edge
\* leaves its source node by is left or right and the vertical link when it is top
\* or bottom, and it runs from the midpoint of that side of the source node to the
\* midpoint of the declared side of the target node.
C28_CurveBySourceSide ==
    (FreshRender /\ ~thrown.thrown) =>
        /\ Len(LastBatch.paths) = Len(edges[activeView])
        /\ \A i \in 1..Len(LastBatch.paths) :
              LET e == EdgeTable[edges[activeView][i]]
                  path == LastBatch.paths[i]
              IN  /\ path.link = (IF e.from.side \in {"left", "right"} THEN "linkHorizontal"
                                  ELSE "linkVertical")
                  /\ IsSideMidpoint(path.source, NodeTable[e.from.node], e.from.side)
                  /\ IsSideMidpoint(path.target, NodeTable[e.to.node], e.to.side)

\* C29: a render appends exactly one rectangle per node of the canvas, the
\* rectangles of the groups (fill groupColor) before those of all other nodes (fill
\* nodeColor), each with the id, x, y, width and height of its node.
C29_OneRectPerNodeGroupsFirst ==
    FreshRender =>
        LET R == LastBatch.rects
            ids == nodes[activeView]
        IN  /\ Len(R) = Len(ids)
            /\ \A k \in 1..Len(ids) : Cardinality({i \in 1..Len(R) : R[i].id = ids[k]}) = 1
            /\ \A i \in 1..Len(R) :
                  LET n == NodeTable[R[i].id]
                  IN  /\ R[i].x = n.x /\ R[i].y = n.y
                      /\ R[i].width = n.width /\ R[i].height = n.height
                      /\ R[i].fill = (IF n.type = "group" THEN "groupColor" ELSE "nodeColor")
            /\ \A i \in 1..Len(R), j \in 1..Len(R) :
                  (NodeTable[R[i].id].type = "group" /\ NodeTable[R[j].id].type # "group")
                     => i < j

C29_Witness ==
    /\ FreshRender
    /\ nodes[activeView] = <<"n2", "g2", "n1", "g1">>
    /\ LastBatch.rects[1].id = "g2" /\ LastBatch.rects[2].id = "g1"
    /\ LastBatch.rects[3].id = "n2"

\* C30: the endpoints sidePositionOf computes are the centre of the node's box moved
\* by half its width to the left or right or by half its height up or down, and
\* computing them again in a later render of the same canvas gives the same
\* coordinates.
C30_SidePositionIsPure ==
    FreshRender =>
        /\ \A i \in 1..Len(LastBatch.paths) :
              LET e == EdgeTable[edges[activeView][i]]
              IN  /\ IsSideMidpoint(LastBatch.paths[i].source, NodeTable[e.from.node], e.from.side)
                  /\ IsSideMidpoint(LastBatch.paths[i].target, NodeTable[e.to.node], e.to.side)
        /\ \A a \in 1..Len(scene), b \in 1..Len(scene) :
              \A i \in 1..Min(Len(scene[a].paths), Len(scene[b].paths)) :
                 /\ scene[a].paths[i].source = scene[b].paths[i].source
                 /\ scene[a].paths[i].target = scene[b].paths[i].target

C30_Witness ==
    /\ FreshRender
    /\ Len(scene) = 2
    /\ edges[activeView] = <<"e2", "e3">>
    /\ Len(scene[1].paths) = 2 /\ Len(scene[2].paths) = 2
    /\ scene[2].paths[2].source = Vector2(60, 70)

\* C32: in every reachable state, whatever the order of layout-ready, leaf changes,
\* resizes, file modifications, settings saves and the commands, canvas_event has at
\* most one CANVAS_TICK subscription of onCanvasUpdate.
C32_AtMostOneTickSubscription == subs <= 1

\* C33: the document never holds more than one element #_minimap_, and an element
\* #_minimap_ holds exactly one svg: setupMinimap creates the overlay only when
\* there is none.
C33_OneOverlayOneSvg ==
    /\ Len(overlays) <= 1
    /\ \A i \in 1..Len(overlays) : overlays[i] = 1
    /\ minimap <=> overlays # <<>>

\* setupMinimap has run while an overlay was in the document, and kept it.
C33_Witness == handler = "onLayoutReady" /\ stale /\ Len(overlays) = 1

\* C38: when the save started by a click on the close button has completed,
\* settings.enabled is false and the document holds no #_minimap_; and while
\* settings.enabled stays false, no callback puts an overlay where there was none.
C38_CloseRemovesOverlayForGood ==
    [][ /\ (handler = "close-click" /\ handler' = "saveSettings")
            => (~settings'.enabled /\ ~minimap')
        /\ (~settings.enabled /\ ~settings'.enabled /\ ~minimap) => ~minimap' ]_vars

\* C39: with settings.enabled false setupMinimap changes nothing. The call made by
\* onLayoutReady leaves every field of the plugin and the whole document as they
\* were; a reload adds no wrapper, no subscription and no element to what
\* unloadMinimap left, and leaves canvas_bounds and canvas_patched alone.
C39_DisabledSetupIsNoOp ==
    [][ /\ (~settings.enabled /\ handler' = "onLayoutReady")
            => UNCHANGED <<settings, canvas_bounds, canvas_patched, subs, wrappers,
                           pendingSaves, domVars>>
        /\ (~settings'.enabled /\ handler' \in ReloadHandlers)
            => /\ wrappers' = wrappers
               /\ subs' <= subs
               /\ Len(overlays') <= Len(overlays)
               /\ toolbar' => toolbar
               /\ canvas_bounds' = canvas_bounds
               /\ canvas_patched' = canvas_patched ]_vars

\* onLayoutReady has called setupMinimap with a canvas active and the minimap disabled.
C39_Witness ==
    /\ handler = "onLayoutReady" /\ ~settings.enabled /\ activeView \in Canvases
    /\ wrappers = 0 /\ subs = 0 /\ ~minimap

\* The click point lies inside a #minimap_viewport rectangle that has a size.
InsideIndicator ==
    \E b \in 1..Len(scene) :
        /\ scene[b].viewport.id = "minimap_viewport"
        /\ scene[b].viewport.width > 0 /\ scene[b].viewport.height > 0
        /\ BBoxContains(FromRect(scene[b].viewport), ClickPoint)

\* The ids of the node rectangles the click point lies inside.
NodeRectsAtClick ==
    UNION { {scene[b].rects[i].id :
                i \in {j \in 1..Len(scene[b].rects) :
                           BBoxContains(FromRect(scene[b].rects[j]), ClickPoint)}} :
            b \in 1..Len(scene) }

\* C31: the indicator is no candidate of the hit test. A click inside the indicator
\* and inside no node rectangle ends without a navigation call and without an
\* error; a click inside the indicator and inside node rectangles navigates to the
\* box of one of those nodes.
C31_IndicatorIsNoCandidate ==
    (handler = "svg-click" /\ click.on /\ InsideIndicator) =>
        /\ NodeRectsAtClick = {} => nav = NoNav
        /\ (NodeRectsAtClick # {} /\ NodeRectsAtClick \subseteq {nodes[activeView][i] : i \in 1..Len(nodes[activeView])})
            => /\ nav.call = IF UsedStrategy = "ZOOM" THEN "zoomToBbox" ELSE "panTo"
               /\ \E id \in NodeRectsAtClick : NavGoesTo(NodeBBox(NodeTable[id]))

\* A click inside the sized indicator and outside every node rectangle.
C31_Witness ==
    /\ handler = "svg-click" /\ click.on /\ InsideIndicator
    /\ NodeRectsAtClick = {} /\ scene # <<>> /\ scene[1].rects # <<>>

\* C34: throughout a resize drag the element a mousemove restyles is the overlay
\* that is in the document at that moment: the div of the drag has not been removed,
\* and the overlay in the document has the width and height the handler computed,
\* also when a save started by an earlier mousemove has completed in between.
C34_ResizeUpdatesAttachedOverlay ==
    handler = "resize-mousemove" =>
        /\ ~resize.detached
        /\ minimap => (divStyle.width = settings.width /\ divStyle.height = settings.height)

\* C35: the click that follows a drag of the minimap's view (mousedown on the svg,
\* mouse movement, mouseup) calls neither panTo nor zoomToBbox.
C35_ClickAfterDragDoesNotNavigate ==
    [][(gesture = "drag-end" /\ handler' = "svg-click")
           => nav'.call \notin {"panTo", "zoomToBbox"}]_vars

\* C36: after a Ctrl+wheel event the viewBox is at least 50 and at most
\* canvas_bounds.width() wide, and at least 50 and at most canvas_bounds.height()
\* high; a wheel event without Ctrl leaves the viewBox as it was.
C36_WheelKeepsViewWithinBounds ==
    [][ /\ handler' = "svg-ctrl-wheel"
            => /\ 50 <= viewBox'[3] /\ viewBox'[3] <= BBoxWidth(canvas_bounds')
               /\ 50 <= viewBox'[4] /\ viewBox'[4] <= BBoxHeight(canvas_bounds')
        /\ handler' = "svg-wheel" => viewBox' = viewBox ]_vars

\* C37: after every mousemove of a resize drag, whatever the size the overlay had
\* when the drag began and whichever handle is dragged, the overlay is at least 200
\* wide and 150 high, and settings.width, height, positionX and positionY are the
\* overlay's width, height, left and top. (Stated for the overlay the drag began on
\* while it is in the document; C34 is about its replacement during the drag.)
C37_ResizeKeepsMinimumSize ==
    (handler = "resize-mousemove" /\ ~resize.detached /\ minimap) =>
        /\ divStyle.width >= 200
        /\ divStyle.height >= 150
        /\ settings.width = divStyle.width /\ settings.height = divStyle.height
        /\ settings.positionX = divStyle.left /\ settings.positionY = divStyle.top

====
